---- MODULE Spec2Model ----
(***************************************************************************)
(* Model of the voxel engine core: World storage (src/src/world.ts), the   *)
(* block registry (block.ts), the greedy mesher (src/src/greedy-mesh.ts),  *)
(* the axis-separated collision resolver (src/src/collision.ts) and the    *)
(* DDA raycaster (src/src/raycast.ts).                                     *)
(*                                                                         *)
(* Lengths are integers counted in units of 5e-7 world units, so that the  *)
(* resolver's epsilon 1e-6 is 2 units and positions closer to a cell       *)
(* boundary than the epsilon can be represented exactly.                   *)
(***************************************************************************)
EXTENDS Integers, Sequences, FiniteSets, TLC

VARIABLES
    dims,     \* World.sizeX, sizeY, sizeZ as <<sizeX, sizeY, sizeZ>>
    blocks,   \* World.blocks: the flat Uint8Array, indices 0..sizeX*sizeY*sizeZ-1
    call,     \* the last World call: its arguments, return value, grid before it
    pos,      \* the position handed to moveAndCollide (mutated in place)
    move,     \* the moveAndCollide call: start position, delta and its result
    quads,    \* the quads of the last greedyMesh run
    vertexData, \* the vertices greedyMesh returns, six per quad
    ray,      \* the raycast call: origin, direction, maxDistance and its result
    state,    \* the PlayerState physicsTick mutates
    tick,     \* the last physicsTick call: its inputs and what each step did
    pc        \* which operation has run

vars == <<dims, blocks, call, pos, move, quads, vertexData, ray, state, tick,
          pc>>

(***************************************************************************)
(* Bounds of the model.                                                    *)
(***************************************************************************)
MaxDim == 3      \* largest grid extent along one axis
MaxCells == 8    \* largest number of cells of a grid
MaxSolid == 2    \* most solid cells in a grid whose inputs are enumerated

(***************************************************************************)
(* Block ids and the registry (block.ts).                                  *)
(***************************************************************************)
AIR == 0
MARBLE == 1
UNREGISTERED == 2     \* an id no register() call names
MAXID == 255          \* the largest value a Uint8Array slot holds

BlockIds == {AIR, MARBLE, UNREGISTERED, MAXID}

\* blockRegistry after the two register() calls at module load
Registry == (AIR :> [name |-> "air", solid |-> FALSE])
         @@ (MARBLE :> [name |-> "marble", solid |-> TRUE])

\* BlockRegistry.isSolid: this.blocks[id]?.solid ?? false
BlockRegistry_isSolid(id) ==
    IF id \in DOMAIN Registry THEN Registry[id].solid ELSE FALSE

(***************************************************************************)
(* World (world.ts).  d is <<sizeX, sizeY, sizeZ>>, b the flat array.      *)
(***************************************************************************)
NumCells(d) == d[1] * d[2] * d[3]

OutOfRange(d, x, y, z) ==
    x < 0 \/ x >= d[1] \/ y < 0 \/ y >= d[2] \/ z < 0 \/ z >= d[3]

index_swapped(d, x, y, z) == y * d[3] * d[1] + z * d[3] + x

\* World.index
index(d, x, y, z) == y * d[3] * d[1] + z * d[1] + x

getBlock_unchecked(b, d, x, y, z) ==
    IF x < 0 \/ x > d[1] \/ y < 0 \/ y > d[2] \/ z < 0 \/ z > d[3]
    THEN AIR
    ELSE IF index(d, x, y, z) \in DOMAIN b THEN b[index(d, x, y, z)] ELSE AIR

\* World.getBlock: AIR out of range, else this.blocks[index] ?? AIR
getBlock(b, d, x, y, z) ==
    IF OutOfRange(d, x, y, z)
    THEN AIR
    ELSE IF index(d, x, y, z) \in DOMAIN b THEN b[index(d, x, y, z)] ELSE AIR

\* World.setBlock: the new array and the returned flag.  A typed array
\* ignores a store outside its length and keeps id modulo 256.
setBlock(b, d, x, y, z, id) ==
    IF OutOfRange(d, x, y, z)
    THEN [blocks |-> b, ret |-> FALSE]
    ELSE [blocks |-> IF index(d, x, y, z) \in DOMAIN b
                     THEN [b EXCEPT ![index(d, x, y, z)] = id % 256]
                     ELSE b,
          ret |-> TRUE]

\* World.isSolid
isSolid(b, d, x, y, z) == BlockRegistry_isSolid(getBlock(b, d, x, y, z))

(***************************************************************************)
(* Grids the inputs are drawn from.                                        *)
(***************************************************************************)
WorldDims ==
    {d \in (1..MaxDim) \X (1..MaxDim) \X (1..MaxDim) : NumCells(d) <= MaxCells}

EmptyGrid(d) == [i \in 0..(NumCells(d) - 1) |-> AIR]

\* all grids of d whose cells are AIR except for the cells of S, which hold id
GridWith(d, S, id) == [i \in 0..(NumCells(d) - 1) |-> IF i \in S THEN id ELSE AIR]

SparseGrids(d) ==
    {GridWith(d, S, MARBLE) :
        S \in {T \in SUBSET (0..(NumCells(d) - 1)) : Cardinality(T) <= MaxSolid}}

\* coordinates one step beyond the grid on either side, to cover out-of-range
CoordRange(n) == (-1)..n

NoCall == [op |-> "none"]
NoMove == [op |-> "none"]
NoRay == [op |-> "none"]
NoPlayer == [op |-> "none"]
NoTick == [op |-> "none"]

(***************************************************************************)
(* World specification: a grid, then one setBlock call.                    *)
(***************************************************************************)
InitWorld ==
    /\ dims \in WorldDims
    /\ blocks \in SparseGrids(dims)
    /\ call = NoCall
    /\ pos = <<0, 0, 0>>
    /\ move = NoMove
    /\ quads = <<>>
    /\ vertexData = <<>>
    /\ ray = NoRay
    /\ state = NoPlayer
    /\ tick = NoTick
    /\ pc = "world"

SetBlock(x, y, z, id) ==
    /\ pc = "world"
    /\ LET r == setBlock(blocks, dims, x, y, z, id) IN
        /\ blocks' = r.blocks
        /\ call' = [op |-> "setBlock", x |-> x, y |-> y, z |-> z, id |-> id,
                    ret |-> r.ret, before |-> blocks]
    /\ pc' = "worldDone"
    /\ UNCHANGED <<dims, pos, move, quads, vertexData, ray, state, tick>>

NextWorld ==
    /\ pc = "world"
    /\ \E x \in CoordRange(dims[1]), y \in CoordRange(dims[2]),
          z \in CoordRange(dims[3]), id \in BlockIds : SetBlock(x, y, z, id)

SpecWorld == InitWorld /\ [][NextWorld]_vars

(***************************************************************************)
(* Lengths.  One world unit is UnitsPerWorldUnit model units.              *)
(***************************************************************************)
UnitsPerWorldUnit == 2 * 1000 * 1000

\* main.ts: const BLOCK_SIZE = 10
BLOCK_SIZE == 10 * UnitsPerWorldUnit

(***************************************************************************)
(* greedyMesh (greedy-mesh.ts).  The grid is blocks[y][z][x]; here the     *)
(* same cells are read from the flat array b of a grid of dimensions d.    *)
(* Axes are 0, 1, 2 as in the source; vectors are tuples indexed axis + 1. *)
(***************************************************************************)
NOTHING == AIR

NullBlock == [isNull |-> TRUE, type |-> NOTHING]

\* greedyMesh.getBlock: null out of bounds, else blocks[y][z][x]
Mesh_getBlock(b, d, x, y, z) ==
    IF x < 0 \/ x >= d[1] \/ y < 0 \/ y >= d[2] \/ z < 0 \/ z >= d[3]
    THEN NullBlock
    ELSE [isNull |-> FALSE, type |-> b[index(d, x, y, z)]]

\* greedyMesh.isSolid: block !== null && block.type !== NOTHING
Mesh_isSolid(block) == ~block.isNull /\ block.type # NOTHING

Number(bool) == IF bool THEN 1 ELSE 0

\* vertexAO without the rule for two solid edge neighbours
vertexAO_sumOnly(side1, side2, corner) ==
    3 - (Number(side1) + Number(side2) + Number(corner))

\* vertexAO
vertexAO(side1, side2, corner) ==
    IF side1 /\ side2
    THEN 0
    ELSE 3 - (Number(side1) + Number(side2) + Number(corner))

\* the vector with dval on axisIdx, uval on uIdx and vval on vIdx
AxisVec(axisIdx, uIdx, vIdx, dval, uval, vval) ==
    [k \in 1..3 |-> IF k = axisIdx + 1 THEN dval
                    ELSE IF k = uIdx + 1 THEN uval
                    ELSE vval]

\* computeFaceAO.signs: v0 (u-low, v-low), v1 (u-high, v-low),
\* v2 (u-high, v-high), v3 (u-low, v-high)
signs == <<(<<-1, -1>>), (<<1, -1>>), (<<1, 1>>), (<<-1, 1>>)>>

\* computeFaceAO: the AO of the four corners, as <<ao0, ao1, ao2, ao3>>
computeFaceAO(b, d, faceU, faceV, airD, axisIdx, uIdx, vIdx) ==
    [c \in 1..4 |->
        LET su == signs[c][1]
            sv == signs[c][2]
            s1 == AxisVec(axisIdx, uIdx, vIdx, airD, faceU + su, faceV)
            s2 == AxisVec(axisIdx, uIdx, vIdx, airD, faceU, faceV + sv)
            cr == AxisVec(axisIdx, uIdx, vIdx, airD, faceU + su, faceV + sv)
        IN vertexAO(Mesh_isSolid(Mesh_getBlock(b, d, s1[1], s1[2], s1[3])),
                    Mesh_isSolid(Mesh_getBlock(b, d, s2[1], s2[2], s2[3])),
                    Mesh_isSolid(Mesh_getBlock(b, d, cr[1], cr[2], cr[3])))]

\* getDim
getDim(d, axis) == IF axis = 0 THEN d[1] ELSE IF axis = 1 THEN d[2] ELSE d[3]

uAxis(axis) == (axis + 1) % 3
vAxis(axis) == (axis + 2) % 3

\* PackAO with ao[3] shifted by 4 as ao[2] is
PackAO_sharedBits(ao) == ao[1] + 4 * ao[2] + 16 * ao[3] + 16 * ao[4]

\* ao[0] | (ao[1] << 2) | (ao[2] << 4) | (ao[3] << 6)
PackAO(ao) == ao[1] + 4 * ao[2] + 16 * ao[3] + 64 * ao[4]

\* the unpacking of the mask value: (aoPacked >> 2k) & 3
UnpackAO(aoPacked) ==
    <<aoPacked % 4, (aoPacked \div 4) % 4, (aoPacked \div 16) % 4,
      (aoPacked \div 64) % 4>>

\* the mask value of the cell pair at x[axis] = xd, x[u] = xu, x[v] = xv
MaskValue(b, d, axis, xd, xu, xv) ==
    LET u == uAxis(axis)
        v == vAxis(axis)
        x == AxisVec(axis, u, v, xd, xu, xv)
        xq == AxisVec(axis, u, v, xd + 1, xu, xv)
        solidA == Mesh_isSolid(Mesh_getBlock(b, d, x[1], x[2], x[3]))
        solidB == Mesh_isSolid(Mesh_getBlock(b, d, xq[1], xq[2], xq[3]))
    IN IF solidA = solidB
       THEN 0
       ELSE LET positive == solidA
                airD == IF positive THEN xd + 1 ELSE xd
                ao == computeFaceAO(b, d, xu, xv, airD, axis, u, v)
            IN (IF positive THEN 1 ELSE -1) * (1 + PackAO(ao))

\* phase 1: the mask of the slice between x[axis] = xd and xd + 1,
\* n = x[v] * uDim + x[u]
BuildMask(b, d, axis, xd) ==
    LET uDim == getDim(d, uAxis(axis))
        vDim == getDim(d, vAxis(axis))
    IN [n \in 0..(uDim * vDim - 1) |->
            MaskValue(b, d, axis, xd, n % uDim, n \div uDim)]

RECURSIVE QuadWidth_shortRow(_, _, _, _, _, _)
QuadWidth_shortRow(mask, n, i, uDim, maskVal, w) ==
    IF i + w < uDim - 1 /\ mask[n + w] = maskVal
    THEN QuadWidth_shortRow(mask, n, i, uDim, maskVal, w + 1)
    ELSE w

RECURSIVE QuadWidth(_, _, _, _, _, _)
\* while (i + w < uDim && mask[n + w] === maskVal) w++
QuadWidth(mask, n, i, uDim, maskVal, w) ==
    IF i + w < uDim /\ mask[n + w] = maskVal
    THEN QuadWidth(mask, n, i, uDim, maskVal, w + 1)
    ELSE w

RECURSIVE QuadHeight_firstCellOnly(_, _, _, _, _, _, _, _)
QuadHeight_firstCellOnly(mask, n, j, w, uDim, vDim, maskVal, h) ==
    IF j + h < vDim /\ mask[n + h * uDim] = maskVal
    THEN QuadHeight_firstCellOnly(mask, n, j, w, uDim, vDim, maskVal, h + 1)
    ELSE h

RECURSIVE QuadHeight(_, _, _, _, _, _, _, _)
\* while (j + h < vDim && !done): the whole row of width w must match
QuadHeight(mask, n, j, w, uDim, vDim, maskVal, h) ==
    IF j + h < vDim /\ \A k \in 0..(w - 1) : mask[n + k + h * uDim] = maskVal
    THEN QuadHeight(mask, n, j, w, uDim, vDim, maskVal, h + 1)
    ELSE h

\* quads.push({...}): the quad of width w and height h at x[u] = i, x[v] = j
\* in the plane x[axis] = xd, corners in world coordinates
MakeQuad(axis, xd, i, j, w, h, maskVal, blockSize) ==
    LET u == uAxis(axis)
        v == vAxis(axis)
        x == AxisVec(axis, u, v, xd, i, j)
        du == AxisVec(u, axis, v, w, 0, 0)
        dv == AxisVec(v, axis, u, h, 0, 0)
        wp == [k \in 1..3 |-> x[k] * blockSize]
        duw == [k \in 1..3 |-> du[k] * blockSize]
        dvw == [k \in 1..3 |-> dv[k] * blockSize]
        absMask == IF maskVal < 0 THEN -maskVal ELSE maskVal
    IN [v0 |-> wp,
        v1 |-> [k \in 1..3 |-> wp[k] + duw[k]],
        v2 |-> [k \in 1..3 |-> wp[k] + duw[k] + dvw[k]],
        v3 |-> [k \in 1..3 |-> wp[k] + dvw[k]],
        uvWidth |-> w,
        uvHeight |-> h,
        positiveFacing |-> maskVal > 0,
        axis |-> axis,
        ao |-> UnpackAO(absMask - 1)]

RECURSIVE MergeSlice(_, _, _, _, _, _, _)
\* phase 2: the scan of one slice's mask from cell n on; out collects the quads
MergeSlice(mask, n, d, axis, xd, blockSize, out) ==
    LET uDim == getDim(d, uAxis(axis))
        vDim == getDim(d, vAxis(axis))
    IN IF n >= uDim * vDim
       THEN out
       ELSE IF mask[n] = 0
       THEN MergeSlice(mask, n + 1, d, axis, xd, blockSize, out)
       ELSE LET maskVal == mask[n]
                i == n % uDim
                j == n \div uDim
                w == QuadWidth(mask, n, i, uDim, maskVal, 1)
                h == QuadHeight(mask, n, j, w, uDim, vDim, maskVal, 1)
                quad == MakeQuad(axis, xd, i, j, w, h, maskVal, blockSize)
                zeroed == [m \in DOMAIN mask |->
                             IF /\ m % uDim >= i /\ m % uDim < i + w
                                /\ m \div uDim >= j /\ m \div uDim < j + h
                             THEN 0 ELSE mask[m]]
            IN MergeSlice(zeroed, n + w, d, axis, xd, blockSize,
                          Append(out, quad))

RECURSIVE SweepAxis(_, _, _, _, _, _)
\* for (x[axis] = -1; x[axis] < axisDim; ): mask, x[axis]++, merge
\* (Len(out) makes the quads pushed so far a value before the next slice)
SweepAxis(b, d, axis, xd, blockSize, out) ==
    IF Len(out) >= 0 /\ xd >= getDim(d, axis)
    THEN out
    ELSE SweepAxis(b, d, axis, xd + 1, blockSize,
             MergeSlice(BuildMask(b, d, axis, xd), 0, d, axis, xd + 1,
                        blockSize, out))

greedyMesh_noBoundary(b, d, blockSize) ==
    SweepAxis(b, d, 2, 0, blockSize,
        SweepAxis(b, d, 1, 0, blockSize,
            SweepAxis(b, d, 0, 0, blockSize, <<>>)))

\* greedyMesh, phases 1 and 2: the quads in the order they are pushed
greedyMesh(b, d, blockSize) ==
    SweepAxis(b, d, 2, -1, blockSize,
        SweepAxis(b, d, 1, -1, blockSize,
            SweepAxis(b, d, 0, -1, blockSize, <<>>)))

\* const numVertices = quads.length * 6
numVertices(qs) == Len(qs) * 6

\* AO_CURVE, in hundredths
AO_CURVE == <<20, 45, 70, 100>>

\* normal[quad.axis] = quad.positiveFacing ? 1 : -1
QuadNormal(q) ==
    [a \in 1..3 |-> IF a = q.axis + 1
                    THEN (IF q.positiveFacing THEN 1 ELSE -1)
                    ELSE 0]

\* uv0..uv3: tiled by the size of the quad, rotated for axis 0
QuadUVs(q) ==
    IF q.axis = 0
    THEN <<(<<0, q.uvWidth>>), (<<0, 0>>), (<<q.uvHeight, 0>>),
           (<<q.uvHeight, q.uvWidth>>)>>
    ELSE <<(<<0, q.uvHeight>>), (<<q.uvWidth, q.uvHeight>>),
           (<<q.uvWidth, 0>>), (<<0, 0>>)>>

\* flipDiag = ao[0] + ao[2] > ao[1] + ao[3]
flipDiag(q) == q.ao[1] + q.ao[3] > q.ao[2] + q.ao[4]

triangleData_sameWinding(q) ==
    IF flipDiag(q) THEN <<1, 2, 4, 2, 3, 4>> ELSE <<1, 2, 3, 1, 3, 4>>

\* triangleData: the corners v0..v3 (numbered 1..4) in the order emitted
triangleData(q) ==
    IF q.positiveFacing
    THEN IF flipDiag(q) THEN <<1, 2, 4, 2, 3, 4>> ELSE <<1, 2, 3, 1, 3, 4>>
    ELSE IF flipDiag(q) THEN <<1, 4, 2, 2, 4, 3>> ELSE <<1, 3, 2, 1, 4, 3>>

\* the six vertices written for one quad: position, normal, uv, ao, color
QuadVertices(q) ==
    LET corners == <<q.v0, q.v1, q.v2, q.v3>>
        uvs == QuadUVs(q)
        order == triangleData(q)
    IN [k \in 1..6 |->
           [pos |-> corners[order[k]],
            normal |-> QuadNormal(q),
            uv |-> uvs[order[k]],
            ao |-> AO_CURVE[q.ao[order[k]] + 1],
            color |-> <<200, 150, 100, 255>>]]

\* greedyMesh, phase 3: vertexData as the sequence of the vertices, the six
\* of quad k at 6 * (k - 1) + 1 .. 6 * k
QuadsToVertices(qs) ==
    [n \in 1..(6 * Len(qs)) |-> QuadVertices(qs[((n - 1) \div 6) + 1])[((n - 1) % 6) + 1]]

(***************************************************************************)
(* Mesher specification: a grid, then one greedyMesh run.                  *)
(***************************************************************************)
DenseGrids(d) == [0..(NumCells(d) - 1) -> {AIR, MARBLE}]

InitMesh ==
    /\ dims \in WorldDims
    /\ blocks \in DenseGrids(dims)
    /\ call = NoCall
    /\ pos = <<0, 0, 0>>
    /\ move = NoMove
    /\ quads = <<>>
    /\ vertexData = <<>>
    /\ ray = NoRay
    /\ state = NoPlayer
    /\ tick = NoTick
    /\ pc = "mesh"

GreedyMesh ==
    /\ pc = "mesh"
    /\ \E qs \in {greedyMesh(blocks, dims, BLOCK_SIZE)} :
          /\ quads' = qs
          /\ vertexData' = QuadsToVertices(qs)
    /\ pc' = "meshed"
    /\ UNCHANGED <<dims, blocks, call, pos, move, ray, state, tick>>

NextMesh == GreedyMesh

SpecMesh == InitMesh /\ [][NextMesh]_vars

(***************************************************************************)
(* Wide-slice mesher specification: a grid of 3 x 2 x 2 cells in any       *)
(* orientation with a few solid cells, then one greedyMesh run.  A slice   *)
(* three cells wide is the smallest in which two faces darkened alike lie  *)
(* side by side.                                                           *)
(***************************************************************************)
MaxWideSolid == 4

InitWide ==
    /\ dims \in {<<3, 2, 2>>, <<2, 3, 2>>, <<2, 2, 3>>}
    /\ \E S \in SUBSET (0..(NumCells(dims) - 1)) :
          /\ Cardinality(S) <= MaxWideSolid
          /\ blocks = GridWith(dims, S, MARBLE)
    /\ call = NoCall
    /\ pos = <<0, 0, 0>>
    /\ move = NoMove
    /\ quads = <<>>
    /\ vertexData = <<>>
    /\ ray = NoRay
    /\ state = NoPlayer
    /\ tick = NoTick
    /\ pc = "mesh"

SpecWide == InitWide /\ [][GreedyMesh]_vars

(***************************************************************************)
(* Ambient-occlusion specification: one face between the two layers of a   *)
(* grid that is 2 cells thick along the face axis and 3 x 3 across it,     *)
(* then the AO of that face as phase 1 computes and packs it.  The solid   *)
(* layer holds the cell of the face only; the air layer holds any set of   *)
(* the other eight cells.                                                  *)
(***************************************************************************)
AODims(axis) == AxisVec(axis, uAxis(axis), vAxis(axis), 2, 3, 3)

\* the face positions tried: centre, corner and edge of the 3 x 3 layer
AOFacePositions == {<<1, 1>>, <<0, 0>>, <<2, 1>>}

\* the grid of a face on axis at (fu, fv): the cell of the face solid in the
\* solid layer, the cells of S (pairs <<u, v>>) solid in the air layer
AOGrid(axis, positive, fu, fv, S) ==
    LET d == AODims(axis)
        solidLayer == IF positive THEN 0 ELSE 1
        cells == {AxisVec(axis, uAxis(axis), vAxis(axis), solidLayer, fu, fv)}
                 \cup {AxisVec(axis, uAxis(axis), vAxis(axis), 1 - solidLayer,
                               c[1], c[2]) : c \in S}
    IN GridWith(d, {index(d, c[1], c[2], c[3]) : c \in cells}, MARBLE)

InitAO ==
    /\ \E axis \in 0..2, positive \in BOOLEAN, f \in AOFacePositions :
       \E S \in SUBSET (((0..2) \X (0..2)) \ {f}) :
          /\ dims = AODims(axis)
          /\ blocks = AOGrid(axis, positive, f[1], f[2], S)
          /\ call = [op |-> "face", axis |-> axis, faceU |-> f[1],
                     faceV |-> f[2]]
    /\ pos = <<0, 0, 0>>
    /\ move = NoMove
    /\ quads = <<>>
    /\ vertexData = <<>>
    /\ ray = NoRay
    /\ state = NoPlayer
    /\ tick = NoTick
    /\ pc = "ao"

\* the AO of the four corners as the mask of the slice carries it
MaskAO(b, d, axis, xd, xu, xv) ==
    LET maskVal == MaskValue(b, d, axis, xd, xu, xv)
    IN UnpackAO((IF maskVal < 0 THEN -maskVal ELSE maskVal) - 1)

ComputeFaceAO ==
    /\ pc = "ao"
    /\ call' = [op |-> "computeFaceAO", axis |-> call.axis,
                faceU |-> call.faceU, faceV |-> call.faceV,
                positive |-> MaskValue(blocks, dims, call.axis, 0,
                                       call.faceU, call.faceV) > 0,
                ao |-> MaskAO(blocks, dims, call.axis, 0, call.faceU,
                              call.faceV)]
    /\ pc' = "aoDone"
    /\ UNCHANGED <<dims, blocks, pos, move, quads, vertexData, ray,
                 state, tick>>

NextAO == ComputeFaceAO

SpecAO == InitAO /\ [][NextAO]_vars

(***************************************************************************)
(* moveAndCollide (collision.ts).  The grid is blocks[y][z][x], read here  *)
(* from the flat array b of a grid of dimensions d.  Positions are         *)
(* <<x, y, z>> in model units.                                             *)
(***************************************************************************)
\* the 1e-6 subtracted from the max bound of the box
EPS == UnitsPerWorldUnit \div (1000 * 1000)

\* main.ts: const playerHeight = BLOCK_SIZE * 2 * 0.9
playerHeight == (BLOCK_SIZE * 2 * 9) \div 10

\* main.ts: const playerHalfWidth = BLOCK_SIZE / 4
playerHalfWidth == BLOCK_SIZE \div 4

\* Math.floor(a / blockSize)
FloorDiv(a, blockSize) == a \div blockSize

\* collision.ts isSolid: false out of bounds, else block.type !== NOTHING
Collision_isSolid(b, d, bx, by, bz) ==
    IF bx < 0 \/ bx >= d[1] \/ by < 0 \/ by >= d[2] \/ bz < 0 \/ bz >= d[3]
    THEN FALSE
    ELSE b[index(d, bx, by, bz)] # NOTHING

CellRange_noEpsilon(px, py, pz, blockSize, halfWidth, height) ==
    [bxMin |-> FloorDiv(px - halfWidth, blockSize),
     bxMax |-> FloorDiv(px + halfWidth, blockSize),
     byMin |-> FloorDiv(py - height, blockSize),
     byMax |-> FloorDiv(py, blockSize),
     bzMin |-> FloorDiv(pz - halfWidth, blockSize),
     bzMax |-> FloorDiv(pz + halfWidth, blockSize)]

\* bxMin..bzMax of resolveX / resolveZ / resolveY: the cells of the box at
\* (px, py, pz), the epsilon taken off the max bounds
CellRange(px, py, pz, blockSize, halfWidth, height) ==
    [bxMin |-> FloorDiv(px - halfWidth, blockSize),
     bxMax |-> FloorDiv(px + halfWidth - EPS, blockSize),
     byMin |-> FloorDiv(py - height, blockSize),
     byMax |-> FloorDiv(py - EPS, blockSize),
     bzMin |-> FloorDiv(pz - halfWidth, blockSize),
     bzMax |-> FloorDiv(pz + halfWidth - EPS, blockSize)]

\* the cells of a range in the order of the three nested loops:
\* by outermost, then bz, then bx
CellsInLoopOrder(r) ==
    LET nx == IF r.bxMax >= r.bxMin THEN r.bxMax - r.bxMin + 1 ELSE 0
        ny == IF r.byMax >= r.byMin THEN r.byMax - r.byMin + 1 ELSE 0
        nz == IF r.bzMax >= r.bzMin THEN r.bzMax - r.bzMin + 1 ELSE 0
    IN [n \in 1..(nx * ny * nz) |->
            <<r.bxMin + ((n - 1) % nx),
              r.byMin + ((n - 1) \div (nx * nz)),
              r.bzMin + (((n - 1) \div nx) % nz)>>]

RECURSIVE ScanX(_, _, _, _, _, _, _, _, _)
\* the loop body of resolveX over the cells from the k-th on
ScanX(cells, k, b, d, blockSize, halfWidth, direction, px, collided) ==
    IF k > Len(cells)
    THEN [px |-> px, collided |-> collided]
    ELSE IF ~Collision_isSolid(b, d, cells[k][1], cells[k][2], cells[k][3])
    THEN ScanX(cells, k + 1, b, d, blockSize, halfWidth, direction, px, collided)
    ELSE ScanX(cells, k + 1, b, d, blockSize, halfWidth, direction,
               IF direction > 0 THEN cells[k][1] * blockSize - halfWidth
               ELSE IF direction < 0 THEN (cells[k][1] + 1) * blockSize + halfWidth
               ELSE px,
               TRUE)

\* resolveX pushing to the near face whatever the direction of the move
resolveX_ignoresDirection(px, py, pz, b, d, blockSize, halfWidth, height, direction) ==
    ScanX(CellsInLoopOrder(CellRange(px, py, pz, blockSize, halfWidth, height)),
          1, b, d, blockSize, halfWidth, 1, px, FALSE)

\* resolveX
resolveX(px, py, pz, b, d, blockSize, halfWidth, height, direction) ==
    ScanX(CellsInLoopOrder(CellRange(px, py, pz, blockSize, halfWidth, height)),
          1, b, d, blockSize, halfWidth, direction, px, FALSE)

RECURSIVE ScanZ(_, _, _, _, _, _, _, _, _)
\* the loop body of resolveZ over the cells from the k-th on
ScanZ(cells, k, b, d, blockSize, halfWidth, direction, pz, collided) ==
    IF k > Len(cells)
    THEN [pz |-> pz, collided |-> collided]
    ELSE IF ~Collision_isSolid(b, d, cells[k][1], cells[k][2], cells[k][3])
    THEN ScanZ(cells, k + 1, b, d, blockSize, halfWidth, direction, pz, collided)
    ELSE ScanZ(cells, k + 1, b, d, blockSize, halfWidth, direction,
               IF direction > 0 THEN cells[k][3] * blockSize - halfWidth
               ELSE IF direction < 0 THEN (cells[k][3] + 1) * blockSize + halfWidth
               ELSE pz,
               TRUE)

\* resolveZ
resolveZ(px, py, pz, b, d, blockSize, halfWidth, height, direction) ==
    ScanZ(CellsInLoopOrder(CellRange(px, py, pz, blockSize, halfWidth, height)),
          1, b, d, blockSize, halfWidth, direction, pz, FALSE)

RECURSIVE ScanY(_, _, _, _, _, _, _, _, _, _)
\* the loop body of resolveY over the cells from the k-th on
ScanY(cells, k, b, d, blockSize, height, direction, py, onGround, collidedCeiling) ==
    IF k > Len(cells)
    THEN [py |-> py, onGround |-> onGround, collidedCeiling |-> collidedCeiling]
    ELSE IF ~Collision_isSolid(b, d, cells[k][1], cells[k][2], cells[k][3])
    THEN ScanY(cells, k + 1, b, d, blockSize, height, direction, py,
               onGround, collidedCeiling)
    ELSE IF direction < 0
    THEN ScanY(cells, k + 1, b, d, blockSize, height, direction,
               (cells[k][2] + 1) * blockSize + height, TRUE, collidedCeiling)
    ELSE IF direction > 0
    THEN ScanY(cells, k + 1, b, d, blockSize, height, direction,
               cells[k][2] * blockSize, onGround, TRUE)
    ELSE ScanY(cells, k + 1, b, d, blockSize, height, direction, py,
               onGround, collidedCeiling)

\* resolveY without the ceiling branch
resolveY_groundOnly(px, py, pz, b, d, blockSize, halfWidth, height, direction) ==
    ScanY(CellsInLoopOrder(CellRange(px, py, pz, blockSize, halfWidth, height)),
          1, b, d, blockSize, height, IF direction > 0 THEN 0 ELSE direction,
          py, FALSE, FALSE)

\* resolveY
resolveY(px, py, pz, b, d, blockSize, halfWidth, height, direction) ==
    ScanY(CellsInLoopOrder(CellRange(px, py, pz, blockSize, halfWidth, height)),
          1, b, d, blockSize, height, direction, py, FALSE, FALSE)

\* moveAndCollide stopping all horizontal motion on an X contact
moveAndCollide_stopOnContact(p, delta, b, d, blockSize, halfWidth, height) ==
    LET xResult == resolveX(p[1] + delta[1], p[2], p[3], b, d, blockSize,
                            halfWidth, height, delta[1])
        px == xResult.px
        zResult == IF xResult.collided
                   THEN [pz |-> p[3], collided |-> FALSE]
                   ELSE resolveZ(px, p[2], p[3] + delta[3], b, d, blockSize,
                                 halfWidth, height, delta[3])
        pz == zResult.pz
        yResult == resolveY(px, p[2] + delta[2], pz, b, d, blockSize,
                            halfWidth, height, delta[2])
        py == yResult.py
    IN [pos |-> <<px, py, pz>>,
        onGround |-> yResult.onGround,
        collidedX |-> xResult.collided,
        collidedZ |-> zResult.collided,
        collidedCeiling |-> yResult.collidedCeiling]

\* moveAndCollide: X, then Z, then Y; the new pos and the CollisionResult
moveAndCollide(p, delta, b, d, blockSize, halfWidth, height) ==
    LET xResult == resolveX(p[1] + delta[1], p[2], p[3], b, d, blockSize,
                            halfWidth, height, delta[1])
        px == xResult.px
        zResult == resolveZ(px, p[2], p[3] + delta[3], b, d, blockSize,
                            halfWidth, height, delta[3])
        pz == zResult.pz
        yResult == resolveY(px, p[2] + delta[2], pz, b, d, blockSize,
                            halfWidth, height, delta[2])
        py == yResult.py
    IN [pos |-> <<px, py, pz>>,
        onGround |-> yResult.onGround,
        collidedX |-> xResult.collided,
        collidedZ |-> zResult.collided,
        collidedCeiling |-> yResult.collidedCeiling]

(***************************************************************************)
(* Collision specification: a grid, then one moveAndCollide call whose     *)
(* position and delta are drawn per axis from values that put the faces of *)
(* the box on, just beside and far from the cell boundaries.               *)
(***************************************************************************)
CollisionDims == <<2, 3, 2>>

\* <<start, delta>> on a horizontal axis.  Starts: the box touching the
\* boundary at BLOCK_SIZE from below, reaching over it by less than the
\* epsilon, touching it from above.  Deltas: none, shorter than the epsilon,
\* just short of one cell.
HorizontalMoves ==
    LET lo == BLOCK_SIZE - playerHalfWidth
        over == BLOCK_SIZE - playerHalfWidth + 1
        hi == BLOCK_SIZE + playerHalfWidth
        far == BLOCK_SIZE - 1
    IN {<<lo, 0>>, <<lo, 1>>, <<lo, far>>,
        <<over, 0>>, <<over, 1>>, <<over, far>>, <<over, -far>>,
        <<hi, 0>>, <<hi, -1>>, <<hi, -far>>}

\* <<start, delta>> on the vertical axis.  Starts: feet on the top of row 0,
\* head on the bottom of row 2, head reaching into row 2 by less than the
\* epsilon.
VerticalMoves ==
    LET floor == BLOCK_SIZE + playerHeight
        ceil == 2 * BLOCK_SIZE
        over == 2 * BLOCK_SIZE + 1
        far == BLOCK_SIZE - 1
    IN {<<floor, -far>>, <<floor, -1>>, <<floor, 0>>,
        <<ceil, 0>>, <<ceil, 1>>, <<ceil, far>>,
        <<over, 0>>, <<over, 1>>}

InitCollision ==
    /\ dims = CollisionDims
    /\ blocks \in SparseGrids(dims)
    /\ call = NoCall
    /\ pos = <<0, 0, 0>>
    /\ move = NoMove
    /\ quads = <<>>
    /\ vertexData = <<>>
    /\ ray = NoRay
    /\ state = NoPlayer
    /\ tick = NoTick
    /\ pc = "collide"

MoveAndCollide(start, delta) ==
    /\ pc = "collide"
    /\ \E r \in {moveAndCollide(start, delta, blocks, dims, BLOCK_SIZE,
                               playerHalfWidth, playerHeight)} :
        /\ pos' = r.pos
        /\ move' = [op |-> "moveAndCollide", start |-> start, delta |-> delta,
                    onGround |-> r.onGround, collidedX |-> r.collidedX,
                    collidedZ |-> r.collidedZ,
                    collidedCeiling |-> r.collidedCeiling]
    /\ pc' = "collided"
    /\ UNCHANGED <<dims, blocks, call, quads, vertexData, ray, state, tick>>

NextCollision ==
    /\ pc = "collide"
    /\ \E mx \in HorizontalMoves, my \in VerticalMoves, mz \in HorizontalMoves :
        MoveAndCollide(<<mx[1], my[1], mz[1]>>, <<mx[2], my[2], mz[2]>>)

SpecCollision == InitCollision /\ [][NextCollision]_vars

(***************************************************************************)
(* raycast (raycast.ts).  The origin is <<x, y, z>> in model units, the    *)
(* direction has small integer components, and the ray parameter t of      *)
(* block space is kept as the integer t * TScale, which is exact for the   *)
(* directions of DirComponents.  Infinity is a value above every finite t. *)
(***************************************************************************)
DirComponents == {-2, -1, 0, 1, 2}

TScale == BLOCK_SIZE * 2

Infinity == 1024 * 1024 * 1024

\* Math.floor(origin[k] / bs)
StartCell(origin, bs) ==
    <<FloorDiv(origin[1], bs), FloorDiv(origin[2], bs), FloorDiv(origin[3], bs)>>

\* stepX, stepY, stepZ
Step(dc) == IF dc > 0 THEN 1 ELSE IF dc < 0 THEN -1 ELSE 0

\* tDelta a quarter of what it is
tDelta_quarter(dc) ==
    IF dc > 0 THEN TScale \div (4 * dc)
    ELSE IF dc < 0 THEN TScale \div (4 * (-dc))
    ELSE Infinity

\* tDeltaX, tDeltaY, tDeltaZ: Math.abs(1 / d), Infinity for d = 0
tDelta(dc) ==
    IF dc > 0 THEN TScale \div dc
    ELSE IF dc < 0 THEN TScale \div (-dc)
    ELSE Infinity

\* tMax measured to the upper boundary of the cell whatever the direction
tMax_upperBoundary(bc, oc, dc, bs) ==
    IF dc > 0 THEN (((bc + 1) * bs - oc) * (TScale \div bs)) \div dc
    ELSE IF dc < 0 THEN (((bc + 1) * bs - oc) * (TScale \div bs)) \div (-dc)
    ELSE Infinity

\* the first tMaxX, tMaxY, tMaxZ: (b + 1 - o) / d, (b - o) / d or Infinity
tMax(bc, oc, dc, bs) ==
    IF dc > 0 THEN (((bc + 1) * bs - oc) * (TScale \div bs)) \div dc
    ELSE IF dc < 0 THEN ((oc - bc * bs) * (TScale \div bs)) \div (-dc)
    ELSE Infinity

\* tMax += tDelta
Advance(tm, td) == IF tm = Infinity \/ td = Infinity THEN Infinity ELSE tm + td

\* the axis the loop advances on: X if tMaxX is the strict minimum, else Y if
\* tMaxY < tMaxZ, else Z
NextAxis(tm) ==
    IF tm[1] < tm[2] /\ tm[1] < tm[3] THEN 0
    ELSE IF tm[2] < tm[3] THEN 1
    ELSE 2

FaceNormal_alongStep(lastAxis, step) ==
    [a \in 1..3 |-> IF a = lastAxis + 1 THEN step[a] ELSE 0]

\* faceNormal: minus the step of the axis advanced last, 0 elsewhere
FaceNormal(lastAxis, step) ==
    [a \in 1..3 |-> IF a = lastAxis + 1 THEN -step[a] ELSE 0]

RECURSIVE RayLoop_testsStartCell(_, _, _, _, _, _, _, _, _)
\* the loop testing the cell it is in before it advances
RayLoop_testsStartCell(b, d, step, td, maxDistBlock, cell, tm, t, entered) ==
    IF ~(t < maxDistBlock)
    THEN [hit |-> FALSE, entered |-> entered, t |-> t]
    ELSE IF isSolid(b, d, cell[1], cell[2], cell[3])
    THEN [hit |-> TRUE, blockPos |-> cell, faceNormal |-> FaceNormal(2, step),
          lastAxis |-> 2, t |-> t, entered |-> entered]
    ELSE LET axis == NextAxis(tm)
             cell2 == [cell EXCEPT ![axis + 1] = cell[axis + 1] + step[axis + 1]]
             t2 == tm[axis + 1]
             tm2 == [tm EXCEPT ![axis + 1] = Advance(tm[axis + 1], td[axis + 1])]
         IN RayLoop_testsStartCell(b, d, step, td, maxDistBlock, cell2, tm2,
                                   t2, Append(entered, cell2))

RECURSIVE RayLoop_noBreak(_, _, _, _, _, _, _, _, _)
\* the loop without the break at t >= maxDistBlock after the advance
RayLoop_noBreak(b, d, step, td, maxDistBlock, cell, tm, t, entered) ==
    IF ~(t < maxDistBlock)
    THEN [hit |-> FALSE, entered |-> entered, t |-> t]
    ELSE LET axis == NextAxis(tm)
             cell2 == [cell EXCEPT ![axis + 1] = cell[axis + 1] + step[axis + 1]]
             t2 == tm[axis + 1]
             tm2 == [tm EXCEPT ![axis + 1] = Advance(tm[axis + 1], td[axis + 1])]
         IN IF isSolid(b, d, cell2[1], cell2[2], cell2[3])
            THEN [hit |-> TRUE, blockPos |-> cell2,
                  faceNormal |-> FaceNormal(axis, step),
                  lastAxis |-> axis, t |-> t2,
                  entered |-> Append(entered, cell2)]
            ELSE RayLoop_noBreak(b, d, step, td, maxDistBlock, cell2, tm2, t2,
                                 Append(entered, cell2))

RECURSIVE RayLoop(_, _, _, _, _, _, _, _, _)
\* while (t < maxDistBlock): advance, break at t >= maxDistBlock, return the
\* hit if the cell entered is solid.  entered is the sequence of the cells
\* the loop has stepped into.
RayLoop(b, d, step, td, maxDistBlock, cell, tm, t, entered) ==
    IF ~(t < maxDistBlock)
    THEN [hit |-> FALSE, entered |-> entered, t |-> t]
    ELSE LET axis == NextAxis(tm)
             cell2 == [cell EXCEPT ![axis + 1] = cell[axis + 1] + step[axis + 1]]
             t2 == tm[axis + 1]
             tm2 == [tm EXCEPT ![axis + 1] = Advance(tm[axis + 1], td[axis + 1])]
         IN IF t2 >= maxDistBlock
            THEN [hit |-> FALSE, entered |-> Append(entered, cell2), t |-> t2]
            ELSE IF isSolid(b, d, cell2[1], cell2[2], cell2[3])
            THEN [hit |-> TRUE, blockPos |-> cell2,
                  faceNormal |-> FaceNormal(axis, step),
                  lastAxis |-> axis, t |-> t2,
                  entered |-> Append(entered, cell2)]
            ELSE RayLoop(b, d, step, td, maxDistBlock, cell2, tm2, t2,
                         Append(entered, cell2))

\* raycast: null is [hit |-> FALSE]; the hit carries blockPos, faceNormal and
\* t (distance = t * bs / TScale), with the cells entered and the last axis
raycast(origin, direction, b, d, bs, maxDistance) ==
    LET cell == StartCell(origin, bs)
        step == [a \in 1..3 |-> Step(direction[a])]
        td == [a \in 1..3 |-> tDelta(direction[a])]
        tm == [a \in 1..3 |-> tMax(cell[a], origin[a], direction[a], bs)]
        maxDistBlock == maxDistance * (TScale \div bs)
    IN RayLoop(b, d, step, td, maxDistBlock, cell, tm, 0, <<>>)

(***************************************************************************)
(* Raycast specification: a grid, then one raycast call from an origin     *)
(* inside a cell, on a cell boundary or outside the grid.                  *)
(***************************************************************************)
RayDims == <<2, 2, 2>>

RayOrigins ==
    ({BLOCK_SIZE \div 2, BLOCK_SIZE + BLOCK_SIZE \div 4}
        \X {BLOCK_SIZE \div 2, BLOCK_SIZE + BLOCK_SIZE \div 4}
        \X {BLOCK_SIZE \div 2, BLOCK_SIZE + BLOCK_SIZE \div 4})
    \cup {<<BLOCK_SIZE, BLOCK_SIZE \div 2, BLOCK_SIZE \div 2>>,
          <<0 - BLOCK_SIZE \div 2, BLOCK_SIZE \div 2, BLOCK_SIZE \div 4>>}

RayDistances == {0, BLOCK_SIZE \div 2, 4 * BLOCK_SIZE}

\* the centre of the cell c
CellCentre(c) == [a \in 1..3 |-> c[a] * BLOCK_SIZE + BLOCK_SIZE \div 2]

\* <<origin, direction>> of rays aimed at the centre of a cell of the grid
\* from no, half a or a whole cell away on each axis:
\* centre = origin + direction * BLOCK_SIZE / 2
AimedRays ==
    {<<[a \in 1..3 |-> CellCentre(c)[a] - dir[a] * (BLOCK_SIZE \div 2)], dir>> :
        c \in (0..(RayDims[1] - 1)) \X (0..(RayDims[2] - 1)) \X (0..(RayDims[3] - 1)),
        dir \in DirComponents \X DirComponents \X DirComponents}

\* <<origin, direction>> of the calls: every direction from the origins of
\* RayOrigins, and the aimed rays
RayInputs ==
    (RayOrigins \X (DirComponents \X DirComponents \X DirComponents))
    \cup AimedRays

InitRay ==
    /\ dims = RayDims
    /\ blocks \in SparseGrids(dims)
    /\ call = NoCall
    /\ pos = <<0, 0, 0>>
    /\ move = NoMove
    /\ quads = <<>>
    /\ vertexData = <<>>
    /\ ray = NoRay
    /\ state = NoPlayer
    /\ tick = NoTick
    /\ pc = "ray"

Raycast(origin, direction, maxDistance) ==
    /\ pc = "ray"
    /\ \E r \in {raycast(origin, direction, blocks, dims, BLOCK_SIZE, maxDistance)} :
        ray' = [op |-> "raycast", origin |-> origin, direction |-> direction,
                maxDistance |-> maxDistance, result |-> r]
    /\ pc' = "rayDone"
    /\ UNCHANGED <<dims, blocks, call, pos, move, quads, vertexData,
                 state, tick>>

NextRay ==
    /\ pc = "ray"
    /\ \E input \in RayInputs, maxDistance \in RayDistances :
           Raycast(input[1], input[2], maxDistance)

SpecRay == InitRay /\ [][NextRay]_vars

(***************************************************************************)
(* physicsTick (movement.ts).  Velocities are integers in thousandths of a *)
(* world unit per reference tick, drag factors in ten-thousandths, times   *)
(* in milliseconds; a product of a velocity and a drag factor is cut to    *)
(* the thousandth, where the code rounds to the nearest double.            *)
(***************************************************************************)
\* velocity units per world unit per reference tick
VelScale == 1000

\* units of a drag factor per 1.0
DragScale == 10 * 1000

\* const MC_TICK = 0.05 (seconds), in milliseconds
MC_TICK == 50

JUMP_VELOCITY == 4200
GRAVITY == 800
VERTICAL_DRAG == 9800
TERMINAL_VELOCITY == -39200
GROUND_ACCEL == 3000
AIR_ACCEL == 260
GROUND_DRAG == 5460
AIR_DRAG == 9100
SPRINT_JUMP_BOOST == 2800
NEGLIGIBLE_THRESHOLD == 50

\* const JUMP_COOLDOWN = 0.5 (seconds), in milliseconds
JUMP_COOLDOWN == 500

MovementKeys == {"KeyW", "KeyA", "KeyS", "KeyD"}

Abs(v) == IF v < 0 THEN -v ELSE v

\* a / b cut toward zero
Div(a, b) == IF a >= 0 THEN a \div b ELSE -((-a) \div b)

RECURSIVE SqrtBetween(_, _, _)
SqrtBetween(n, lo, hi) ==
    IF lo = hi THEN lo
    ELSE LET mid == (lo + hi + 1) \div 2
         IN IF mid * mid <= n THEN SqrtBetween(n, mid, hi)
            ELSE SqrtBetween(n, lo, mid - 1)

\* Math.sqrt, cut to an integer
Sqrt(n) == SqrtBetween(n, 0, DragScale)

\* value * t for t = dt / MC_TICK
Scaled(value, dt) == (value * dt) \div MC_TICK

\* the greatest r of lo..hi with r ** 10 <= n, factors in ten-thousandths
RECURSIVE TenthRootBetween(_, _, _)
TenthRootBetween(n, lo, hi) ==
    IF lo = hi THEN lo
    ELSE LET mid == (lo + hi + 1) \div 2
             p2 == (mid * mid) \div DragScale
             p4 == (p2 * p2) \div DragScale
             p5 == (p4 * mid) \div DragScale
         IN IF (p5 * p5) \div DragScale <= n
            THEN TenthRootBetween(n, mid, hi)
            ELSE TenthRootBetween(n, lo, mid - 1)

\* base ** t for t = dt / MC_TICK, at the dt of the model: a tenth of a
\* reference tick, half, one, two
Pow(base, dt) ==
    CASE dt = MC_TICK -> base
      [] dt = 2 * MC_TICK -> (base * base) \div DragScale
      [] dt * 2 = MC_TICK -> Sqrt(base * DragScale)
      [] dt * 10 = MC_TICK -> TenthRootBetween(base, 0, DragScale)

\* vel * factor for a drag factor
MulDrag(vel, factor) == Div(vel * factor, DragScale)

\* velocity * t as a length in model units
Displacement(vel, dt) ==
    vel * (((UnitsPerWorldUnit \div VelScale) * dt) \div MC_TICK)

createPlayerState ==
    [velX |-> 0, velY |-> 0, velZ |-> 0, onGround |-> FALSE,
     jumpCooldown |-> 0]

\* wgpu-matrix vec3.cross
vec3_cross(a, b) ==
    <<a[2] * b[3] - a[3] * b[2],
      a[3] * b[1] - a[1] * b[3],
      a[1] * b[2] - a[2] * b[1]>>

\* wgpu-matrix vec3.normalize: the zero vector for a vector too short
vec3_normalize(v) ==
    LET len == Sqrt(v[1] * v[1] + v[2] * v[2] + v[3] * v[3])
    IN IF len > 0
       THEN <<Div(v[1] * VelScale, len), Div(v[2] * VelScale, len),
              Div(v[3] * VelScale, len)>>
       ELSE <<0, 0, 0>>

\* the horizontal direction of the keys held, in thousandths; cameraUp is a
\* vector of whole numbers
getMovementDirection(keysDown, cameraFront, cameraUp) ==
    LET right == vec3_normalize(vec3_cross(cameraFront, cameraUp))
        forward == vec3_normalize(vec3_cross(cameraUp, right))
        fx == forward[1]
        fz == forward[3]
        rx == right[1]
        rz == right[3]
        dx == (IF "KeyW" \in keysDown THEN fx ELSE 0)
              - (IF "KeyS" \in keysDown THEN fx ELSE 0)
              - (IF "KeyA" \in keysDown THEN rx ELSE 0)
              + (IF "KeyD" \in keysDown THEN rx ELSE 0)
        dz == (IF "KeyW" \in keysDown THEN fz ELSE 0)
              - (IF "KeyS" \in keysDown THEN fz ELSE 0)
              - (IF "KeyA" \in keysDown THEN rz ELSE 0)
              + (IF "KeyD" \in keysDown THEN rz ELSE 0)
        len == Sqrt(dx * dx + dz * dz)
    IN IF len > 0
       THEN <<Div(dx * VelScale, len), 0, Div(dz * VelScale, len)>>
       ELSE <<dx, 0, dz>>

\* beforeJump with the cooldown running at twice the speed
beforeJump_fastCooldown(s, dt) ==
    LET cooled == IF s.jumpCooldown > 0
                  THEN [s EXCEPT !.jumpCooldown = @ - 2 * dt] ELSE s
    IN IF Abs(cooled.velY) < Scaled(NEGLIGIBLE_THRESHOLD, dt)
       THEN [cooled EXCEPT !.velY = 0] ELSE cooled

\* "Jump cooldown" and "Negligible vertical threshold"
beforeJump(s, dt) ==
    LET cooled == IF s.jumpCooldown > 0
                  THEN [s EXCEPT !.jumpCooldown = @ - dt] ELSE s
    IN IF Abs(cooled.velY) < Scaled(NEGLIGIBLE_THRESHOLD, dt)
       THEN [cooled EXCEPT !.velY = 0] ELSE cooled

\* "Jump check" with the onGround test left out
jumpCheck_airborne(s, keysDown, cameraFront) ==
    IF "Space" \in keysDown
    THEN IF s.jumpCooldown <= 0
         THEN [state |-> [s EXCEPT !.velY = JUMP_VELOCITY,
                                   !.jumpCooldown = JUMP_COOLDOWN],
               justJumped |-> TRUE]
         ELSE [state |-> s, justJumped |-> FALSE]
    ELSE [state |-> [s EXCEPT !.jumpCooldown = 0], justJumped |-> FALSE]

\* "Jump check": the state after it, and justJumped
jumpCheck(s, keysDown, cameraFront) ==
    IF "Space" \in keysDown
    THEN IF s.onGround /\ s.jumpCooldown <= 0
         THEN LET facingX == cameraFront[1]
                  facingZ == cameraFront[3]
                  facingLen == Sqrt(facingX * facingX + facingZ * facingZ)
                  boost == (keysDown \cap MovementKeys # {}) /\ facingLen > 0
              IN [state |->
                    [s EXCEPT
                       !.velY = JUMP_VELOCITY,
                       !.jumpCooldown = JUMP_COOLDOWN,
                       !.velX = IF boost
                                THEN @ + Div(facingX * SPRINT_JUMP_BOOST,
                                             facingLen)
                                ELSE @,
                       !.velZ = IF boost
                                THEN @ + Div(facingZ * SPRINT_JUMP_BOOST,
                                             facingLen)
                                ELSE @],
                  justJumped |-> TRUE]
         ELSE [state |-> s, justJumped |-> FALSE]
    ELSE [state |-> [s EXCEPT !.jumpCooldown = 0], justJumped |-> FALSE]

\* the regime chosen by the previous tick's flag alone
groundRegime_flagOnly(s, justJumped) == s.onGround

\* the condition of the ground branch of "Horizontal velocity"
groundRegime(s, justJumped) == s.onGround /\ ~justJumped

\* one component of either branch, without the snap to zero
horizontalVelocity_noSnap(vel, drag, accel, dirComponent, hasInput, dt) ==
    MulDrag(vel, Pow(drag, dt))
    + (IF hasInput THEN Div(Scaled(accel, dt) * dirComponent, VelScale)
       ELSE 0)

\* one component of either branch of "Horizontal velocity"
horizontalVelocity(vel, drag, accel, dirComponent, hasInput, dt) ==
    LET mom == MulDrag(vel, Pow(drag, dt))
        snapped == IF Abs(mom) < Scaled(NEGLIGIBLE_THRESHOLD, dt)
                   THEN 0 ELSE mom
    IN snapped
       + (IF hasInput THEN Div(Scaled(accel, dt) * dirComponent, VelScale)
          ELSE 0)

\* "Vertical physics" with the gravity added
verticalPhysics_gravityUp(velY, dt) ==
    LET dragged == MulDrag(velY + Scaled(GRAVITY, dt),
                           Pow(VERTICAL_DRAG, dt))
    IN IF dragged < TERMINAL_VELOCITY THEN TERMINAL_VELOCITY ELSE dragged

\* "Vertical physics (after move)"
verticalPhysics(velY, dt) ==
    LET dragged == MulDrag(velY - Scaled(GRAVITY, dt),
                           Pow(VERTICAL_DRAG, dt))
    IN IF dragged < TERMINAL_VELOCITY THEN TERMINAL_VELOCITY ELSE dragged

\* afterMove without the zeroing of velX on a collision
afterMove_keepsVelocity(before, jump, dir, horizontal, result, dt) ==
    [state |-> [velX |-> horizontal[1],
                velY |-> verticalPhysics(
                             IF result.onGround \/ result.collidedCeiling
                             THEN 0 ELSE jump.state.velY, dt),
                velZ |-> IF result.collidedZ THEN 0 ELSE horizontal[2],
                onGround |-> result.onGround,
                jumpCooldown |-> jump.state.jumpCooldown],
     pos |-> result.pos,
     before |-> before,
     jump |-> jump,
     dir |-> dir,
     horizontal |-> horizontal,
     result |-> [onGround |-> result.onGround,
                 collidedX |-> result.collidedX,
                 collidedZ |-> result.collidedZ,
                 collidedCeiling |-> result.collidedCeiling]]

\* afterMove without "Update ground state"
afterMove_noGroundUpdate(before, jump, dir, horizontal, result, dt) ==
    [state |-> [velX |-> IF result.collidedX THEN 0 ELSE horizontal[1],
                velY |-> verticalPhysics(
                             IF result.onGround \/ result.collidedCeiling
                             THEN 0 ELSE jump.state.velY, dt),
                velZ |-> IF result.collidedZ THEN 0 ELSE horizontal[2],
                onGround |-> jump.state.onGround,
                jumpCooldown |-> jump.state.jumpCooldown],
     pos |-> result.pos,
     before |-> before,
     jump |-> jump,
     dir |-> dir,
     horizontal |-> horizontal,
     result |-> [onGround |-> result.onGround,
                 collidedX |-> result.collidedX,
                 collidedZ |-> result.collidedZ,
                 collidedCeiling |-> result.collidedCeiling]]

\* "Zero velocity on collided axes", "Vertical physics (after move)" and
\* "Update ground state": the new state and position, and what each step
\* of the tick produced
afterMove(before, jump, dir, horizontal, result, dt) ==
    [state |-> [velX |-> IF result.collidedX THEN 0 ELSE horizontal[1],
                velY |-> verticalPhysics(
                             IF result.onGround \/ result.collidedCeiling
                             THEN 0 ELSE jump.state.velY, dt),
                velZ |-> IF result.collidedZ THEN 0 ELSE horizontal[2],
                onGround |-> result.onGround,
                jumpCooldown |-> jump.state.jumpCooldown],
     pos |-> result.pos,
     before |-> before,
     jump |-> jump,
     dir |-> dir,
     horizontal |-> horizontal,
     result |-> [onGround |-> result.onGround,
                 collidedX |-> result.collidedX,
                 collidedZ |-> result.collidedZ,
                 collidedCeiling |-> result.collidedCeiling]]

\* "Horizontal velocity": <<velX, velZ>> after drag and acceleration
horizontalVelocities(jump, dir, dt) ==
    LET hasInput == dir[1] # 0 \/ dir[3] # 0
        ground == groundRegime(jump.state, jump.justJumped)
        drag == IF ground THEN GROUND_DRAG ELSE AIR_DRAG
        accel == IF ground THEN GROUND_ACCEL ELSE AIR_ACCEL
    IN <<horizontalVelocity(jump.state.velX, drag, accel, dir[1], hasInput,
                            dt),
         horizontalVelocity(jump.state.velZ, drag, accel, dir[3], hasInput,
                            dt)>>

\* "Move and collide" and what follows it
moveAndSettle(before, jump, dir, horizontal, p, b, d, blockSize, halfWidth, height, dt) ==
    afterMove(before, jump, dir, horizontal,
              moveAndCollide(p, <<Displacement(horizontal[1], dt),
                                  Displacement(jump.state.velY, dt),
                                  Displacement(horizontal[2], dt)>>,
                             b, d, blockSize, halfWidth, height),
              dt)

\* physicsTick from the jump check on
afterJump(before, jump, dir, p, b, d, blockSize, halfWidth, height, dt) ==
    moveAndSettle(before, jump, dir, horizontalVelocities(jump, dir, dt),
                  p, b, d, blockSize, halfWidth, height, dt)

\* physicsTick from the negligible vertical threshold on
afterCooldown(before, keysDown, cameraFront, up, p, b, d, blockSize, halfWidth, height, dt) ==
    afterJump(before, jumpCheck(before, keysDown, cameraFront),
              getMovementDirection(keysDown, cameraFront, up),
              p, b, d, blockSize, halfWidth, height, dt)

physicsTick(s, keysDown, cameraFront, up, p, b, d, blockSize, halfWidth, height, dt) ==
    afterCooldown(beforeJump(s, dt), keysDown, cameraFront, up, p, b, d,
                  blockSize, halfWidth, height, dt)

(***************************************************************************)
(* Physics specification: a player created by createPlayerState half a     *)
(* world unit above a floor, with or without a ceiling two world units     *)
(* above the head of a standing player, then physicsTick once per frame    *)
(* with the keys held, the camera direction and the frame time of that     *)
(* frame.  main.ts caps dt at 0.1 s, two reference ticks, and keeps the    *)
(* camera pitch within 88 degrees, so cameraFront is never vertical.       *)
(***************************************************************************)
MaxTicks == 5

PhysicsDims == <<2, 4, 2>>

\* the indices of the cells of row y
Layer(d, y) ==
    {index(d, x, y, z) : x \in 0..(d[1] - 1), z \in 0..(d[3] - 1)}

FloorGrid == GridWith(PhysicsDims, Layer(PhysicsDims, 0), MARBLE)

CeilingGrid ==
    GridWith(PhysicsDims, Layer(PhysicsDims, 0) \cup Layer(PhysicsDims, 3),
             MARBLE)

\* the eye position of a player standing on the floor, at its centre
Standing == <<BLOCK_SIZE, BLOCK_SIZE + playerHeight, BLOCK_SIZE>>

Spawn == <<Standing[1], Standing[2] + UnitsPerWorldUnit \div 2, Standing[3]>>

\* main.ts: const up = vec3.create(0, 1, 0)
cameraUp == <<0, 1, 0>>

\* unit vectors in thousandths; main.ts starts with (0, 0, -1)
CameraFronts == {<<0, 0, -1000>>, <<600, 0, 800>>}

\* <<keysDown, cameraFront, dt>> of a frame: no key, the jump key, a
\* movement key, both, and two movement keys that cancel with the jump key;
\* frames of half a reference tick, one, two
FrameInputs ==
    {<<{}, <<0, 0, -1000>>, MC_TICK>>,
     <<{}, <<0, 0, -1000>>, 2 * MC_TICK>>,
     <<{}, <<600, 0, 800>>, MC_TICK \div 2>>,
     <<{"Space"}, <<0, 0, -1000>>, MC_TICK>>,
     <<{"Space"}, <<600, 0, 800>>, 2 * MC_TICK>>,
     <<{"KeyW"}, <<0, 0, -1000>>, MC_TICK>>,
     <<{"KeyW", "Space"}, <<600, 0, 800>>, MC_TICK \div 2>>,
     <<{"KeyW", "Space"}, <<0, 0, -1000>>, 2 * MC_TICK>>,
     <<{"KeyA", "KeyD", "Space"}, <<600, 0, 800>>, MC_TICK>>}

InitPhysics ==
    /\ dims = PhysicsDims
    /\ blocks \in {FloorGrid, CeilingGrid}
    /\ call = NoCall
    /\ pos = Spawn
    /\ move = NoMove
    /\ quads = <<>>
    /\ vertexData = <<>>
    /\ ray = NoRay
    /\ state = createPlayerState
    /\ tick = [op |-> "createPlayerState", n |-> 0]
    /\ pc = "physics"

\* main.ts tick: one physicsTick call on playerState and cameraPos
PhysicsTick(keysDown, cameraFront, dt) ==
    /\ \E r \in {physicsTick(state, keysDown, cameraFront, cameraUp, pos,
                            blocks, dims, BLOCK_SIZE, playerHalfWidth,
                            playerHeight, dt)} :
        /\ state' = r.state
        /\ pos' = r.pos
        /\ tick' = [op |-> "physicsTick", n |-> tick.n + 1,
                    keysDown |-> keysDown, cameraFront |-> cameraFront,
                    dt |-> dt, prev |-> state, before |-> r.before,
                    jump |-> r.jump, dir |-> r.dir,
                    horizontal |-> r.horizontal, result |-> r.result]
    /\ UNCHANGED <<dims, blocks, call, move, quads, vertexData, ray, pc>>

Tick(keysDown, cameraFront, dt) ==
    /\ pc = "physics"
    /\ tick.n < MaxTicks
    /\ PhysicsTick(keysDown, cameraFront, dt)

NextPhysics ==
    /\ pc = "physics"
    /\ tick.n < MaxTicks
    /\ \E input \in FrameInputs : Tick(input[1], input[2], input[3])

SpecPhysics == InitPhysics /\ [][NextPhysics]_vars

(***************************************************************************)
(* Idle specification: a player who has landed on the floor with some      *)
(* horizontal velocity, then physicsTick at the reference tick duration    *)
(* with no key held.  The vertical velocity of a player at rest on the     *)
(* ground is what one tick of gravity and drag leaves of zero.             *)
(***************************************************************************)
MaxSpeed == 8 * VelScale

\* at, just below and just above the negligible threshold after one tick of
\* ground drag, walking speed, the fastest
Speeds ==
    {0, NEGLIGIBLE_THRESHOLD - 1, NEGLIGIBLE_THRESHOLD,
     (NEGLIGIBLE_THRESHOLD * DragScale) \div GROUND_DRAG,
     (NEGLIGIBLE_THRESHOLD * DragScale) \div GROUND_DRAG + 1,
     3 * VelScale, MaxSpeed}

InitialSpeeds == Speeds \cup {-v : v \in Speeds}

\* the ticks after which a speed that is multiplied by the ground drag every
\* tick is below the negligible threshold
RECURSIVE DecayTicks(_, _)
DecayTicks(v, n) ==
    IF v < NEGLIGIBLE_THRESHOLD THEN n
    ELSE DecayTicks((v * GROUND_DRAG) \div DragScale, n + 1)

StopWithin == DecayTicks(MaxSpeed, 0)

MaxIdleTicks == StopWithin + 2

InitIdle ==
    /\ dims = PhysicsDims
    /\ blocks = FloorGrid
    /\ call = NoCall
    /\ pos = Standing
    /\ move = NoMove
    /\ quads = <<>>
    /\ vertexData = <<>>
    /\ ray = NoRay
    /\ \E vx \in InitialSpeeds, vz \in InitialSpeeds :
          state = [velX |-> vx, velY |-> verticalPhysics(0, MC_TICK),
                   velZ |-> vz, onGround |-> TRUE, jumpCooldown |-> 0]
    /\ tick = [op |-> "landed", n |-> 0]
    /\ pc = "idle"

IdleTick ==
    /\ pc = "idle"
    /\ tick.n < MaxIdleTicks
    /\ \E cameraFront \in CameraFronts : PhysicsTick({}, cameraFront, MC_TICK)

NextIdle == IdleTick

SpecIdle == InitIdle /\ [][NextIdle]_vars

(***************************************************************************)
(* Landing specification: the 4x4x4 grid whose layer y = 0 is solid, a     *)
(* player created above the layer with no velocity, then physicsTick frame *)
(* after frame with no key held.                                           *)
(***************************************************************************)
MaxLandingTicks == 12

LandingGrid == GridWith(<<4, 4, 4>>, Layer(<<4, 4, 4>>, 0), MARBLE)

\* pos.y of a player standing on the layer
LandedY == BLOCK_SIZE + playerHeight

\* the centre of the grid and the box against the corner of the layer; the
\* feet on the layer, and one model unit, half a world unit, three and six
\* world units above it
LandingStarts ==
    LET heights == {LandedY, LandedY + 1, LandedY + UnitsPerWorldUnit \div 2,
                    LandedY + 3 * UnitsPerWorldUnit,
                    LandedY + 6 * UnitsPerWorldUnit}
    IN {<<2 * BLOCK_SIZE, y, 2 * BLOCK_SIZE>> : y \in heights}
       \cup {<<playerHalfWidth, y, 4 * BLOCK_SIZE - playerHalfWidth>> :
                y \in heights}

InitLanding ==
    /\ dims = <<4, 4, 4>>
    /\ blocks = LandingGrid
    /\ call = NoCall
    /\ pos \in LandingStarts
    /\ move = NoMove
    /\ quads = <<>>
    /\ vertexData = <<>>
    /\ ray = NoRay
    /\ state = createPlayerState
    /\ tick = [op |-> "createPlayerState", n |-> 0]
    /\ pc = "landing"

LandingTick(dt) ==
    /\ pc = "landing"
    /\ tick.n < MaxLandingTicks
    /\ PhysicsTick({}, <<0, 0, -1000>>, dt)

SpecLanding ==
    /\ InitLanding
    /\ [][\E dt \in {MC_TICK \div 2, MC_TICK, 2 * MC_TICK} : LandingTick(dt)]_vars

(***************************************************************************)
(* Jump specification: a player standing on the floor under the ceiling,   *)
(* then physicsTick frame after frame with the jump key held or not.  The  *)
(* ceiling ends a jump early, so that the player is back on the floor      *)
(* while the cooldown runs.  The tick record also keeps the time since the *)
(* start of the last jump and whether the key was released since.          *)
(***************************************************************************)
MaxJumpTicks == 8

InitJump ==
    /\ dims = PhysicsDims
    /\ blocks = CeilingGrid
    /\ call = NoCall
    /\ pos = Standing
    /\ move = NoMove
    /\ quads = <<>>
    /\ vertexData = <<>>
    /\ ray = NoRay
    /\ state = [velX |-> 0, velY |-> verticalPhysics(0, MC_TICK), velZ |-> 0,
                onGround |-> TRUE, jumpCooldown |-> 0]
    /\ tick = [op |-> "landed", n |-> 0, since |-> -1, released |-> TRUE]
    /\ pc = "jump"

JumpTick ==
    /\ pc = "jump"
    /\ tick.n < MaxJumpTicks
    /\ \E keysDown \in {{}, {"Space"}}, dt \in {MC_TICK, 2 * MC_TICK} :
          \E r \in {physicsTick(state, keysDown, <<0, 0, -1000>>, cameraUp, pos, blocks, dims, BLOCK_SIZE, playerHalfWidth, playerHeight, dt)} :
              /\ state' = r.state
              /\ pos' = r.pos
              /\ tick' = [op |-> "physicsTick", n |-> tick.n + 1,
                          keysDown |-> keysDown, dt |-> dt, prev |-> state,
                          justJumped |-> r.jump.justJumped,
                          since |-> IF r.jump.justJumped THEN 0
                                    ELSE IF tick.since < 0 THEN -1
                                    ELSE tick.since + dt,
                          released |-> IF r.jump.justJumped THEN FALSE
                                       ELSE tick.released
                                            \/ "Space" \notin keysDown,
                          prevSince |-> tick.since,
                          prevReleased |-> tick.released]
    /\ UNCHANGED <<dims, blocks, call, move, quads, vertexData, ray, pc>>

SpecJump == InitJump /\ [][JumpTick]_vars

(***************************************************************************)
(* Game specification (main.ts): the frame callback, which runs            *)
(* physicsTick and then the raycast that sets currentHit, and the two      *)
(* mouse buttons, which edit the grid and remesh.  The grid is 5 x 4 x 1:  *)
(* a floor, a block at head height at the west end and in column 3, and a  *)
(* block above the head in column 2.  The pointer is locked.               *)
(***************************************************************************)
MaxGameSteps == 3

\* main.ts: const MAX_REACH = 100
MAX_REACH == 100 * UnitsPerWorldUnit

GameDims == <<5, 4, 1>>

GameGrid ==
    GridWith(GameDims,
             Layer(GameDims, 0)
                 \cup {index(GameDims, 0, 2, 0), index(GameDims, 3, 2, 0),
                       index(GameDims, 2, 3, 0)},
             MARBLE)

\* <<keysDown, cameraFront, dt>> of a frame; cameraFront looks east or west
\* and is not normalised; frames of a tenth of a reference tick, one, and
\* two (the cap of 0.1 s)
GameInputs ==
    {<<{}, <<1, 0, 0>>, MC_TICK>>,
     <<{}, <<-1, 0, 0>>, 2 * MC_TICK>>,
     <<{}, <<1, 0, 0>>, MC_TICK \div 10>>,
     <<{"KeyW"}, <<1, 0, 0>>, 2 * MC_TICK>>,
     <<{"KeyW"}, <<-1, 0, 0>>, MC_TICK>>,
     <<{"Space"}, <<1, 0, 0>>, 2 * MC_TICK>>}

\* <<cameraPos, playerState>>: standing at the centre of column 1, with the
\* east face of the box five millionths into column 2, at the centre of
\* column 2, and in the air one and a half cells west of the grid
GameStarts ==
    LET landed == [velX |-> 0, velY |-> verticalPhysics(0, MC_TICK),
                   velZ |-> 0, onGround |-> TRUE, jumpCooldown |-> 0]
        z == BLOCK_SIZE \div 2
    IN {<<<<(3 * BLOCK_SIZE) \div 2, LandedY, z>>, landed>>,
        <<<<2 * BLOCK_SIZE - playerHalfWidth + 5 * EPS, LandedY, z>>, landed>>,
        <<<<(5 * BLOCK_SIZE) \div 2, LandedY, z>>, landed>>,
        <<<<-((3 * BLOCK_SIZE) \div 2), LandedY, z>>, createPlayerState>>}

\* currentHit = raycast(cameraPos, cameraFront, world, MAX_REACH)
currentHit(p, cameraFront, b) ==
    [op |-> "raycast", origin |-> p, direction |-> cameraFront,
     maxDistance |-> MAX_REACH,
     result |-> raycast(p, cameraFront, b, GameDims, BLOCK_SIZE, MAX_REACH)]

\* a remesh that keeps the buffers it has
remesh_stale(b) == quads' = quads /\ vertexData' = vertexData

\* remesh(): meshVertexData and meshNumVertices from greedyMesh(world)
remesh(b) ==
    \E qs \in {greedyMesh(b, dims, BLOCK_SIZE)} :
        /\ quads' = qs
        /\ vertexData' = QuadsToVertices(qs)

InitGame ==
    /\ dims = GameDims
    /\ blocks = GameGrid
    /\ call = NoCall
    /\ \E start \in GameStarts, input \in GameInputs :
          /\ pos = start[1]
          /\ state = start[2]
          /\ ray = currentHit(start[1], input[2], GameGrid)
    /\ move = [op |-> "game", steps |-> 0]
    /\ quads = greedyMesh(GameGrid, GameDims, BLOCK_SIZE)
    /\ vertexData = QuadsToVertices(quads)
    /\ tick = [op |-> "landed", n |-> 0]
    /\ pc = "game"

\* tick(t): physicsTick, then the raycast from the new camera position
GameTick(keysDown, cameraFront, dt) ==
    /\ pc = "game"
    /\ move.steps < MaxGameSteps
    /\ \E r \in {physicsTick(state, keysDown, cameraFront, cameraUp, pos, blocks, dims, BLOCK_SIZE, playerHalfWidth, playerHeight, dt)} :
          /\ state' = r.state
          /\ pos' = r.pos
          /\ tick' = [op |-> "physicsTick", n |-> tick.n + 1,
                      keysDown |-> keysDown, cameraFront |-> cameraFront,
                      dt |-> dt, prev |-> state, from |-> pos,
                      grid |-> blocks,
                      before |-> r.before, jump |-> r.jump, dir |-> r.dir,
                      horizontal |-> r.horizontal, result |-> r.result]
          /\ ray' = currentHit(r.pos, cameraFront, blocks)
    /\ move' = [move EXCEPT !.steps = @ + 1]
    /\ UNCHANGED <<dims, blocks, call, quads, vertexData, pc>>

\* mousedown, button 0: setBlock(blockPos, AIR), remesh()
BreakClick ==
    /\ pc = "game"
    /\ move.steps < MaxGameSteps
    /\ ray.result.hit
    /\ LET c == ray.result.blockPos
           r == setBlock(blocks, dims, c[1], c[2], c[3], AIR)
       IN /\ blocks' = r.blocks
          /\ call' = [op |-> "break", n |-> move.steps + 1, target |-> c,
                      ret |-> r.ret, remeshed |-> TRUE, at |-> pos,
                      before |-> blocks, after |-> r.blocks]
          /\ remesh(r.blocks)
    /\ move' = [move EXCEPT !.steps = @ + 1]
    /\ UNCHANGED <<dims, pos, ray, state, tick, pc>>

\* playerMinBX .. playerMaxBZ of the place handler; its 1e-6 is taken off a
\* coordinate in blocks
playerCells(p) ==
    LET eps == BLOCK_SIZE \div (1000 * 1000)
    IN [bxMin |-> FloorDiv(p[1] - playerHalfWidth, BLOCK_SIZE),
        bxMax |-> FloorDiv(p[1] + playerHalfWidth - eps, BLOCK_SIZE),
        byMin |-> FloorDiv(p[2] - playerHeight, BLOCK_SIZE),
        byMax |-> FloorDiv(p[2] - eps, BLOCK_SIZE),
        bzMin |-> FloorDiv(p[3] - playerHalfWidth, BLOCK_SIZE),
        bzMax |-> FloorDiv(p[3] + playerHalfWidth - eps, BLOCK_SIZE)]

\* px, py, pz of the place handler
placeTarget(hit) ==
    <<hit.blockPos[1] + hit.faceNormal[1], hit.blockPos[2] + hit.faceNormal[2],
      hit.blockPos[3] + hit.faceNormal[3]>>

\* the test before "return; // would trap the player"
wouldTrap(c, r) ==
    /\ c[1] >= r.bxMin /\ c[1] <= r.bxMax
    /\ c[2] >= r.byMin /\ c[2] <= r.byMax
    /\ c[3] >= r.bzMin /\ c[3] <= r.bzMax

\* mousedown, button 2: the trap test, then setBlock(target, MARBLE),
\* remesh()
PlaceClick ==
    /\ pc = "game"
    /\ move.steps < MaxGameSteps
    /\ ray.result.hit
    /\ LET c == placeTarget(ray.result)
           r == setBlock(blocks, dims, c[1], c[2], c[3], MARBLE)
       IN IF wouldTrap(c, playerCells(pos))
          THEN /\ call' = [op |-> "place", n |-> move.steps + 1,
                           target |-> c, ret |-> FALSE,
                           remeshed |-> FALSE, at |-> pos,
                           before |-> blocks, after |-> blocks]
               /\ UNCHANGED <<blocks, quads, vertexData>>
          ELSE /\ blocks' = r.blocks
               /\ call' = [op |-> "place", n |-> move.steps + 1,
                           target |-> c, ret |-> r.ret,
                           remeshed |-> TRUE, at |-> pos,
                           before |-> blocks, after |-> r.blocks]
               /\ remesh(r.blocks)
    /\ move' = [move EXCEPT !.steps = @ + 1]
    /\ UNCHANGED <<dims, pos, ray, state, tick, pc>>

SpecGame ==
    /\ InitGame
    /\ [][\/ \E input \in GameInputs : GameTick(input[1], input[2], input[3])
          \/ BreakClick
          \/ PlaceClick]_vars

(***************************************************************************)
(* Start-up specification: main() of main.ts statement by statement, the   *)
(* texture loads of its Promise.all, and the browser running the frame     *)
(* callbacks and the handlers main() has registered.  JavaScript runs one  *)
(* callback at a time and to completion, so a callback runs only while     *)
(* main() is suspended at an await or has ended.  In this specification    *)
(* move is the position of main(), state the resources created, the        *)
(* handlers registered and the frames requested so far, and tick the last  *)
(* callback run.                                                           *)
(***************************************************************************)
MaxCallbacks == 4

NumTextures == 2

\* main.ts 75..614: what each stretch of main() awaits, creates, registers
\* and requests
mainSteps_loopBeforeSkybox ==
    << [op |-> "requestAdapter", await |-> TRUE, inits |-> {"adapter"},
        registers |-> {}, frames |-> {}],
       [op |-> "requestDevice", await |-> TRUE, inits |-> {"device"},
        registers |-> {}, frames |-> {}],
       [op |-> "createPipelines", await |-> FALSE,
        inits |-> {"pipeline", "wireframePipeline", "blockTextureArray"},
        registers |-> {}, frames |-> {}],
       [op |-> "loadTextures", await |-> TRUE, inits |-> {"blockTextures"},
        registers |-> {}, frames |-> {}],
       [op |-> "createBuffers", await |-> FALSE,
        inits |-> {"uniformBuffer", "vertexBuffer", "bindGroup",
                   "wireframeBindGroup"},
        registers |-> {}, frames |-> {}],
       [op |-> "startLoop", await |-> FALSE, inits |-> {},
        registers |-> {}, frames |-> {"tick"}],
       [op |-> "initSkybox", await |-> TRUE, inits |-> {"skybox"},
        registers |-> {}, frames |-> {}],
       [op |-> "initHighlight", await |-> FALSE, inits |-> {"highlight"},
        registers |-> {}, frames |-> {}],
       [op |-> "initWater", await |-> FALSE, inits |-> {"water"},
        registers |-> {}, frames |-> {}],
       [op |-> "BuildDebug", await |-> FALSE, inits |-> {},
        registers |-> {"change"}, frames |-> {}],
       [op |-> "addEventListener", await |-> FALSE, inits |-> {},
        registers |-> {"mousedown", "mousemove", "keydown"},
        frames |-> {}],
       [op |-> "observe", await |-> FALSE, inits |-> {},
        registers |-> {"resize"}, frames |-> {}] >>

mainSteps ==
    << [op |-> "requestAdapter", await |-> TRUE, inits |-> {"adapter"},
        registers |-> {}, frames |-> {}],
       [op |-> "requestDevice", await |-> TRUE, inits |-> {"device"},
        registers |-> {}, frames |-> {}],
       [op |-> "createPipelines", await |-> FALSE,
        inits |-> {"pipeline", "wireframePipeline", "blockTextureArray"},
        registers |-> {}, frames |-> {}],
       [op |-> "loadTextures", await |-> TRUE, inits |-> {"blockTextures"},
        registers |-> {}, frames |-> {}],
       [op |-> "createBuffers", await |-> FALSE,
        inits |-> {"uniformBuffer", "vertexBuffer", "bindGroup",
                   "wireframeBindGroup"},
        registers |-> {}, frames |-> {}],
       [op |-> "initSkybox", await |-> TRUE, inits |-> {"skybox"},
        registers |-> {}, frames |-> {}],
       [op |-> "initHighlight", await |-> FALSE, inits |-> {"highlight"},
        registers |-> {}, frames |-> {}],
       [op |-> "initWater", await |-> FALSE, inits |-> {"water"},
        registers |-> {}, frames |-> {}],
       [op |-> "BuildDebug", await |-> FALSE, inits |-> {},
        registers |-> {"change"}, frames |-> {}],
       [op |-> "addEventListener", await |-> FALSE, inits |-> {},
        registers |-> {"mousedown", "mousemove", "keydown"},
        frames |-> {}],
       [op |-> "observe", await |-> FALSE, inits |-> {},
        registers |-> {"resize"}, frames |-> {}],
       [op |-> "startLoop", await |-> FALSE, inits |-> {},
        registers |-> {}, frames |-> {"tick"}] >>

\* main() has just been called by the module; nothing is created, nothing is
\* registered, no frame is requested
InitStartup ==
    /\ dims = GameDims
    /\ blocks = GameGrid
    /\ call = NoCall
    /\ pos = <<0, 0, 0>>
    /\ move = [op |-> "main", at |-> 1, awaiting |-> FALSE,
               pending |-> {}, thrown |-> FALSE]
    /\ quads = <<>>
    /\ vertexData = <<>>
    /\ ray = NoRay
    /\ state = [ready |-> {}, handlers |-> {}, frames |-> {},
                hit |-> FALSE, keysDown |-> {}]
    /\ tick = [op |-> "none", n |-> 0, ready |-> {}, uses |-> {}]
    /\ pc = "main"

\* main() runs its next stretch: a stretch without await runs at once; an
\* await suspends main(), and main() goes on when the promise is fulfilled
\* (for Promise.all: when every texture is loaded) or throws when it gives
\* no adapter
MainStep ==
    /\ pc = "main"
    /\ ~move.thrown
    /\ move.at <= Len(mainSteps)
    /\ LET s == mainSteps[move.at]
           done == /\ state' = [state EXCEPT
                                  !.ready = @ \cup s.inits,
                                  !.handlers = @ \cup s.registers,
                                  !.frames = @ \cup s.frames]
                   /\ move' = [move EXCEPT !.at = @ + 1,
                                           !.awaiting = FALSE]
       IN \/ ~s.await /\ done
          \/ /\ s.await /\ ~move.awaiting
             /\ move' = [move EXCEPT
                           !.awaiting = TRUE,
                           !.pending = IF s.op = "loadTextures"
                                       THEN 0 .. NumTextures - 1 ELSE {}]
             /\ state' = state
          \/ s.await /\ move.awaiting /\ move.pending = {} /\ done
          \/ /\ s.await /\ move.awaiting /\ s.op = "requestAdapter"
             /\ move' = [move EXCEPT !.thrown = TRUE, !.awaiting = FALSE]
             /\ state' = state
    /\ UNCHANGED <<dims, blocks, call, pos, quads, vertexData, ray, tick, pc>>

\* one of the async functions of the Promise.all has copied its bitmap
TextureLoaded ==
    /\ pc = "main"
    /\ move.awaiting
    /\ \E layer \in move.pending :
          move' = [move EXCEPT !.pending = @ \ {layer}]
    /\ UNCHANGED <<dims, blocks, call, pos, quads, vertexData, ray, state,
                   tick, pc>>

\* the browser runs a requested frame callback or a registered handler while
\* main() is suspended or has ended: tick requests a render and the next
\* tick, render creates the depth texture if needed and draws, a mousedown
\* with a current hit edits the grid and remeshes, mousemove requests a
\* render, the resize observer renders, a change of the debug panel requests
\* a frame that renders
RunHandler ==
    /\ pc = "main"
    /\ tick.n < MaxCallbacks
    /\ move.awaiting \/ move.thrown \/ move.at > Len(mainSteps)
    /\ \E h \in state.frames \cup state.handlers :
        LET draws == {"device", "pipeline", "wireframePipeline",
                      "vertexBuffer", "uniformBuffer", "bindGroup",
                      "wireframeBindGroup", "blockTextures", "skybox",
                      "highlight", "water", "depthTexture"}
            edits == {"device", "vertexBuffer", "uniformBuffer",
                      "wireframePipeline", "wireframeBindGroup"}
            renders == h \in {"render", "resize"}
            ready == IF renders /\ "device" \in state.ready
                     THEN state.ready \cup {"depthTexture"}
                     ELSE state.ready
            uses == IF renders THEN draws
                    ELSE IF h = "mousedown" /\ state.hit THEN edits
                    ELSE {}
        IN /\ \E hit \in BOOLEAN, key \in {"KeyW", "Space"} :
                state' = [state EXCEPT
                    !.ready = ready,
                    !.frames =
                        CASE h = "tick" -> @ \cup {"tick", "render"}
                          [] h = "render" -> @ \ {"render"}
                          [] h \in {"mousemove", "change"} -> @ \cup {"render"}
                          [] OTHER -> @,
                    !.hit = IF h = "tick" THEN hit ELSE @,
                    !.keysDown = IF h = "keydown" THEN @ \cup {key} ELSE @]
           /\ tick' = [op |-> h, n |-> tick.n + 1, ready |-> ready,
                       uses |-> uses]
    /\ UNCHANGED <<dims, blocks, call, pos, move, quads, vertexData, ray, pc>>

SpecStartup ==
    InitStartup /\ [][MainStep \/ TextureLoaded \/ RunHandler]_vars

(***************************************************************************)
(* Claims about World.                                                     *)
(***************************************************************************)
InRangeCoords(d) ==
    {c \in (0..(d[1] - 1)) \X (0..(d[2] - 1)) \X (0..(d[3] - 1)) : TRUE}

ProbeCoords(d) == CoordRange(d[1]) \X CoordRange(d[2]) \X CoordRange(d[3])

\* C4: for every coordinate with a component outside the grid, getBlock
\* returns AIR and isSolid returns false, and a setBlock call on such a
\* coordinate returns false and leaves every cell of the grid as it was.
C4_OutOfRangeTotal ==
    /\ \A c \in ProbeCoords(dims) :
          OutOfRange(dims, c[1], c[2], c[3]) =>
              /\ getBlock(blocks, dims, c[1], c[2], c[3]) = AIR
              /\ isSolid(blocks, dims, c[1], c[2], c[3]) = FALSE
    /\ (call.op = "setBlock" /\ OutOfRange(dims, call.x, call.y, call.z)) =>
          /\ call.ret = FALSE
          /\ blocks = call.before

\* C4 witness: a rejected setBlock of a solid id at x = sizeX, one step past
\* the grid, on a grid that holds a solid cell.
C4_Witness ==
    /\ call.op = "setBlock"
    /\ OutOfRange(dims, call.x, call.y, call.z)
    /\ call.id = MARBLE
    /\ call.x = dims[1]
    /\ \E i \in DOMAIN blocks : blocks[i] = MARBLE

\* C5: a setBlock call on an in-range coordinate returns true; afterwards
\* getBlock there returns the id, isSolid there is the registry's solid flag
\* of the id, and getBlock on every other in-range coordinate returns what it
\* returned before the call.
C5_SetBlockFrame ==
    (call.op = "setBlock" /\ ~OutOfRange(dims, call.x, call.y, call.z)) =>
        /\ call.ret = TRUE
        /\ getBlock(blocks, dims, call.x, call.y, call.z) = call.id
        /\ isSolid(blocks, dims, call.x, call.y, call.z)
              = BlockRegistry_isSolid(call.id)
        /\ \A c \in InRangeCoords(dims) :
              c # <<call.x, call.y, call.z>> =>
                  getBlock(blocks, dims, c[1], c[2], c[3])
                      = getBlock(call.before, dims, c[1], c[2], c[3])

\* C5 witness: a solid id stored over an AIR cell of a grid with another
\* solid cell, in a grid of more than one row.
C5_Witness ==
    /\ call.op = "setBlock"
    /\ ~OutOfRange(dims, call.x, call.y, call.z)
    /\ call.id = MARBLE
    /\ call.z > 0
    /\ getBlock(call.before, dims, call.x, call.y, call.z) = AIR
    /\ \E i \in DOMAIN call.before : call.before[i] = MARBLE
    /\ blocks # call.before

(***************************************************************************)
(* Claims about greedyMesh.  A unit face is <<axis, xd, iu, jv>>: the      *)
(* boundary between the cells x[axis] = xd and xd + 1 at x[u] = iu,        *)
(* x[v] = jv.                                                              *)
(***************************************************************************)
Faces(d) ==
    {f \in (0..2) \X ((-1)..(MaxDim - 1)) \X (0..(MaxDim - 1)) \X (0..(MaxDim - 1)) :
        /\ f[2] < getDim(d, f[1])
        /\ f[3] < getDim(d, uAxis(f[1]))
        /\ f[4] < getDim(d, vAxis(f[1]))}

SolidCell(b, d, c) ==
    /\ ~OutOfRange(d, c[1], c[2], c[3])
    /\ b[index(d, c[1], c[2], c[3])] # AIR

CellBelow(f) == AxisVec(f[1], uAxis(f[1]), vAxis(f[1]), f[2], f[3], f[4])
CellAbove(f) == AxisVec(f[1], uAxis(f[1]), vAxis(f[1]), f[2] + 1, f[3], f[4])

FaceExists(b, d, f) == SolidCell(b, d, CellBelow(f)) # SolidCell(b, d, CellAbove(f))
FacePositive(b, d, f) == SolidCell(b, d, CellBelow(f))

\* the quad q covers the unit face f: same axis, the plane (xd + 1) * bs, and
\* the unit square of f meets the interior of the rectangle v0..v2
Covers(q, f, bs) ==
    /\ q.axis = f[1]
    /\ q.v0[f[1] + 1] = (f[2] + 1) * bs
    /\ q.v0[uAxis(f[1]) + 1] < (f[3] + 1) * bs
    /\ f[3] * bs < q.v2[uAxis(f[1]) + 1]
    /\ q.v0[vAxis(f[1]) + 1] < (f[4] + 1) * bs
    /\ f[4] * bs < q.v2[vAxis(f[1]) + 1]

CoveringQuads(f) == {k \in 1..Len(quads) : Covers(quads[k], f, BLOCK_SIZE)}

\* every quad is a rectangle of whole cells inside its slice of the grid
QuadInGrid(q, d, bs) ==
    LET a == q.axis + 1
        u == uAxis(q.axis) + 1
        v == vAxis(q.axis) + 1
    IN /\ q.v0[a] \in {p * bs : p \in 0..getDim(d, q.axis)}
       /\ q.v1[a] = q.v0[a] /\ q.v2[a] = q.v0[a] /\ q.v3[a] = q.v0[a]
       /\ q.v0[u] \in {p * bs : p \in 0..(getDim(d, uAxis(q.axis)) - 1)}
       /\ q.v0[v] \in {p * bs : p \in 0..(getDim(d, vAxis(q.axis)) - 1)}
       /\ q.uvWidth >= 1 /\ q.uvHeight >= 1
       /\ q.v2[u] = q.v0[u] + q.uvWidth * bs /\ q.v2[u] <= getDim(d, uAxis(q.axis)) * bs
       /\ q.v2[v] = q.v0[v] + q.uvHeight * bs /\ q.v2[v] <= getDim(d, vAxis(q.axis)) * bs
       /\ q.v1[u] = q.v2[u] /\ q.v1[v] = q.v0[v]
       /\ q.v3[u] = q.v0[u] /\ q.v3[v] = q.v2[v]

\* C1: after greedyMesh, a unit face between two cells of which exactly one
\* is solid (out-of-grid cells being air) is covered by exactly one quad,
\* which is positive-facing iff the solid cell is the one at d; a face
\* between two cells of equal solidity is covered by no quad; every quad
\* lies in a plane (d + 1) * blockSize of the grid.
C1_ExactCover ==
    pc = "meshed" =>
        /\ \A f \in Faces(dims) :
              IF FaceExists(blocks, dims, f)
              THEN /\ Cardinality(CoveringQuads(f)) = 1
                   /\ \A k \in CoveringQuads(f) :
                         quads[k].positiveFacing = FacePositive(blocks, dims, f)
              ELSE CoveringQuads(f) = {}
        /\ \A k \in 1..Len(quads) : QuadInGrid(quads[k], dims, BLOCK_SIZE)

\* C1 witness: a mesh with a quad wider and higher than one cell next to a
\* slice that holds faces of both directions.
C1_Witness ==
    /\ pc = "meshed"
    /\ \E k \in 1..Len(quads) : quads[k].uvWidth > 1 /\ quads[k].uvHeight > 1
    /\ \E k1, k2 \in 1..Len(quads) :
          /\ quads[k1].axis = quads[k2].axis
          /\ quads[k1].v0[quads[k1].axis + 1] = quads[k2].v0[quads[k2].axis + 1]
          /\ quads[k1].positiveFacing /\ ~quads[k2].positiveFacing

NumSolid(b) == Cardinality({i \in DOMAIN b : b[i] # AIR})

\* C10: no solid cell gives no quad and no vertex; an all-solid grid gives
\* no quad in a plane between two cells of the grid; exactly one solid cell
\* gives exactly 6 quads (36 vertices), one per axis and direction, each of
\* tile size 1 x 1 on the face of that cell.
C10_MinimalGrids ==
    pc = "meshed" =>
        /\ NumSolid(blocks) = 0 => (Len(quads) = 0 /\ numVertices(quads) = 0)
        /\ NumSolid(blocks) = NumCells(dims) =>
              \A k \in 1..Len(quads) :
                  quads[k].v0[quads[k].axis + 1]
                      \in {0, getDim(dims, quads[k].axis) * BLOCK_SIZE}
        /\ NumSolid(blocks) = 1 =>
              /\ Len(quads) = 6
              /\ numVertices(quads) = 36
              /\ \A axis \in 0..2 : \A facing \in BOOLEAN :
                    \E k \in 1..Len(quads) :
                        /\ quads[k].axis = axis
                        /\ quads[k].positiveFacing = facing
                        /\ quads[k].uvWidth = 1 /\ quads[k].uvHeight = 1
                        /\ \E c \in InRangeCoords(dims) :
                              /\ SolidCell(blocks, dims, c)
                              /\ quads[k].v0 =
                                    [a \in 1..3 |->
                                        IF a = axis + 1 /\ facing
                                        THEN (c[a] + 1) * BLOCK_SIZE
                                        ELSE c[a] * BLOCK_SIZE]

\* C10 witness: the mesh of a grid of several cells with exactly one solid
\* cell, which is not in a corner at the origin.
C10_Witness ==
    /\ pc = "meshed"
    /\ NumSolid(blocks) = 1
    /\ NumCells(dims) > 2
    /\ blocks[0] = AIR
    /\ Len(quads) = 6

\* the AO of the four corners of the unit face f, from its air-side cell
FaceAO(b, d, f) ==
    computeFaceAO(b, d, f[3], f[4],
                  IF FacePositive(b, d, f) THEN f[2] + 1 ELSE f[2],
                  f[1], uAxis(f[1]), vAxis(f[1]))

\* f and g are faces of the same facing with the same AO at all four corners
SameLook(b, d, f, g) ==
    /\ FaceExists(b, d, f) /\ FaceExists(b, d, g)
    /\ FacePositive(b, d, f) = FacePositive(b, d, g)
    /\ FaceAO(b, d, f) = FaceAO(b, d, g)

\* pairs of faces of one slice, g the neighbour of f one cell further along u
AdjacentAlongU(d) ==
    {<<f, <<f[1], f[2], f[3] + 1, f[4]>>>> :
        f \in {g \in Faces(d) : <<g[1], g[2], g[3] + 1, g[4]>> \in Faces(d)}}

\* pairs of faces of one slice, g the neighbour of f one cell further along v
AdjacentAlongV(d) ==
    {<<f, <<f[1], f[2], f[3], f[4] + 1>>>> :
        f \in {g \in Faces(d) : <<g[1], g[2], g[3], g[4] + 1>> \in Faces(d)}}

\* the quad q starts in a row below the row of the face f
StartsBelow(q, f) == q.v0[vAxis(f[1]) + 1] < f[4] * BLOCK_SIZE

\* the columns (along u) the quad q spans
Columns(q) ==
    {k \in 0..(MaxDim - 1) :
        /\ q.v0[uAxis(q.axis) + 1] <= k * BLOCK_SIZE
        /\ (k + 1) * BLOCK_SIZE <= q.v2[uAxis(q.axis) + 1]}

\* C9 as claimed: two adjacent faces of a slice with the same facing and the
\* same AO at all four corners are covered by one single quad; two adjacent
\* faces that differ in facing or in the AO of a corner are covered by two
\* different quads.
C9_Original ==
    pc = "meshed" =>
        \A p \in AdjacentAlongU(dims) \cup AdjacentAlongV(dims) :
            (FaceExists(blocks, dims, p[1]) /\ FaceExists(blocks, dims, p[2])) =>
                IF SameLook(blocks, dims, p[1], p[2])
                THEN /\ CoveringQuads(p[1]) = CoveringQuads(p[2])
                     /\ Cardinality(CoveringQuads(p[1])) = 1
                ELSE CoveringQuads(p[1]) \cap CoveringQuads(p[2]) = {}

\* C9 amended: two faces adjacent along u with the same facing and AO are
\* covered by one single quad unless one of them is covered by a quad that
\* starts in a lower row; two such faces adjacent along v are covered by one
\* single quad unless the row of the upper face holds, within the columns of
\* the quad covering the lower face, a cell without a face of that facing
\* and AO; two adjacent faces that differ in facing or in the AO of a corner
\* are covered by two different quads.
C9_MergeCorrectness ==
    pc = "meshed" =>
        /\ \A p \in AdjacentAlongU(dims) :
              SameLook(blocks, dims, p[1], p[2]) =>
                  \/ /\ CoveringQuads(p[1]) = CoveringQuads(p[2])
                     /\ Cardinality(CoveringQuads(p[1])) = 1
                  \/ \E k \in CoveringQuads(p[1]) \cup CoveringQuads(p[2]) :
                        StartsBelow(quads[k], p[1])
        /\ \A p \in AdjacentAlongV(dims) :
              SameLook(blocks, dims, p[1], p[2]) =>
                  \/ /\ CoveringQuads(p[1]) = CoveringQuads(p[2])
                     /\ Cardinality(CoveringQuads(p[1])) = 1
                  \/ \E k \in CoveringQuads(p[1]) : \E c \in Columns(quads[k]) :
                        ~SameLook(blocks, dims, p[1],
                                  <<p[2][1], p[2][2], c, p[2][4]>>)
        /\ \A p \in AdjacentAlongU(dims) \cup AdjacentAlongV(dims) :
              (/\ FaceExists(blocks, dims, p[1])
               /\ FaceExists(blocks, dims, p[2])
               /\ ~SameLook(blocks, dims, p[1], p[2])) =>
                  CoveringQuads(p[1]) \cap CoveringQuads(p[2]) = {}

\* C9 witness: a mesh in which two adjacent faces of equal facing and AO
\* share a quad and two adjacent faces of one facing but different AO lie in
\* different quads.
C9_Witness ==
    /\ pc = "meshed"
    /\ \E p \in AdjacentAlongU(dims) \cup AdjacentAlongV(dims) :
          /\ SameLook(blocks, dims, p[1], p[2])
          /\ CoveringQuads(p[1]) = CoveringQuads(p[2])
          /\ CoveringQuads(p[1]) # {}
    /\ \E p \in AdjacentAlongU(dims) \cup AdjacentAlongV(dims) :
          /\ FaceExists(blocks, dims, p[1]) /\ FaceExists(blocks, dims, p[2])
          /\ FacePositive(blocks, dims, p[1]) = FacePositive(blocks, dims, p[2])
          /\ FaceAO(blocks, dims, p[1]) # FaceAO(blocks, dims, p[2])
          /\ CoveringQuads(p[1]) \cap CoveringQuads(p[2]) = {}

(***************************************************************************)
(* Claims about the vertices of greedyMesh.                                *)
(***************************************************************************)
\* the n-th vertex (1..6) emitted for the quad k
VertexOf(k, n) == vertexData[6 * (k - 1) + n]

\* the quads k1 and k2 lie in the same plane and face the same way
SamePlaneAndFacing(k1, k2) ==
    /\ quads[k1].axis = quads[k2].axis
    /\ quads[k1].v0[quads[k1].axis + 1] = quads[k2].v0[quads[k2].axis + 1]
    /\ quads[k1].positiveFacing = quads[k2].positiveFacing

\* C12 as claimed: the UV of a vertex depends only on its position in the
\* plane, so two vertices of quads of the same plane and facing that lie at
\* the same position carry the same UV.
C12_Original ==
    pc = "meshed" =>
        \A k1, k2 \in 1..Len(quads) :
            SamePlaneAndFacing(k1, k2) =>
                \A n1, n2 \in 1..6 :
                    VertexOf(k1, n1).pos = VertexOf(k2, n2).pos =>
                        VertexOf(k1, n1).uv = VertexOf(k2, n2).uv

\* a position in whole cells
InCells(p) == [a \in 1..3 |-> p[a] \div BLOCK_SIZE]

\* the cross product (p1 - p0) x (p2 - p0) of positions given in cells
Cross(p0, p1, p2) ==
    LET a == [k \in 1..3 |-> p1[k] - p0[k]]
        b == [k \in 1..3 |-> p2[k] - p0[k]]
    IN <<a[2] * b[3] - a[3] * b[2],
         a[3] * b[1] - a[1] * b[3],
         a[1] * b[2] - a[2] * b[1]>>

\* the positions, in cells, of the triangle t (0 or 1) of the quad k
TrianglePositions(k, t) ==
    [n \in 1..3 |-> InCells(VertexOf(k, 3 * t + n).pos)]

\* C13: for both triangles of every quad the cross product
\* (p1 - p0) x (p2 - p0) is a positive multiple of the normal stored in its
\* vertices; that normal is the unit vector of the quad's axis, +1 for a
\* positive-facing and -1 for a negative-facing quad; the two triangles
\* share one diagonal of the quad, have its four corners as vertices and
\* have half its area each.
C13_WindingAgreesWithFacing ==
    pc = "meshed" =>
        \A k \in 1..Len(quads) :
            LET q == quads[k]
                expected == [a \in 1..3 |->
                                IF a = q.axis + 1
                                THEN (IF q.positiveFacing THEN 1 ELSE -1)
                                ELSE 0]
                corners == {InCells(q.v0), InCells(q.v1), InCells(q.v2),
                            InCells(q.v3)}
                tri(t) == {TrianglePositions(k, t)[n] : n \in 1..3}
            IN /\ \A n \in 1..6 : VertexOf(k, n).normal = expected
               /\ \A t \in 0..1 :
                     LET p == TrianglePositions(k, t)
                         c == Cross(p[1], p[2], p[3])
                     IN /\ \A a \in 1..3 : a # q.axis + 1 => c[a] = 0
                        /\ c[q.axis + 1] * expected[q.axis + 1]
                               = q.uvWidth * q.uvHeight
               /\ Cardinality(corners) = 4
               /\ tri(0) \cup tri(1) = corners
               /\ tri(0) \cap tri(1) \in {{InCells(q.v0), InCells(q.v2)},
                                          {InCells(q.v1), InCells(q.v3)}}

\* C13 witness: a mesh with the four orderings: positive and negative
\* facing, each split along v0-v2 and along v1-v3.
C13_Witness ==
    /\ pc = "meshed"
    /\ \A facing \in BOOLEAN : \A flip \in BOOLEAN :
          \E k \in 1..Len(quads) :
              /\ quads[k].positiveFacing = facing
              /\ flipDiag(quads[k]) = flip
              /\ VertexOf(k, 1).pos = quads[k].v0

(***************************************************************************)
(* Claims about moveAndCollide.  The player box at position p is           *)
(* [x - hw, x + hw] x [y - height, y] x [z - hw, z + hw].                  *)
(***************************************************************************)
\* the box at p and the cell c share a volume and, on every axis, the box
\* reaches at least e beyond the low face of the cell
ReachesInto(c, p, e) ==
    /\ c[1] * BLOCK_SIZE + e <= p[1] + playerHalfWidth
    /\ p[1] - playerHalfWidth < (c[1] + 1) * BLOCK_SIZE
    /\ c[2] * BLOCK_SIZE + e <= p[2]
    /\ p[2] - playerHeight < (c[2] + 1) * BLOCK_SIZE
    /\ c[3] * BLOCK_SIZE + e <= p[3] + playerHalfWidth
    /\ p[3] - playerHalfWidth < (c[3] + 1) * BLOCK_SIZE

\* the box at p and the cell c overlap (share a volume)
CellOverlapsBox(c, p) ==
    /\ c[1] * BLOCK_SIZE < p[1] + playerHalfWidth
    /\ p[1] - playerHalfWidth < (c[1] + 1) * BLOCK_SIZE
    /\ c[2] * BLOCK_SIZE < p[2]
    /\ p[2] - playerHeight < (c[2] + 1) * BLOCK_SIZE
    /\ c[3] * BLOCK_SIZE < p[3] + playerHalfWidth
    /\ p[3] - playerHalfWidth < (c[3] + 1) * BLOCK_SIZE

SolidCells(b, d) == {c \in InRangeCoords(d) : SolidCell(b, d, c)}

\* the solid cells the box at p overlaps
SolidOverlapped(b, d, p) == {c \in SolidCells(b, d) : CellOverlapsBox(c, p)}

\* the solid cells the box at p reaches into by the epsilon or more
SolidReached(b, d, p) == {c \in SolidCells(b, d) : ReachesInto(c, p, EPS)}

\* v lies between a and a + dlt
Between(a, dlt, v) ==
    IF dlt >= 0 THEN a <= v /\ v <= a + dlt ELSE a + dlt <= v /\ v <= a

\* v lies between a and a + dlt, or behind a by less than the epsilon
BetweenWithin(a, dlt, v) ==
    IF dlt >= 0 THEN a - EPS < v /\ v <= a + dlt ELSE a + dlt <= v /\ v < a + EPS

SmallDelta(delta) ==
    \A k \in 1..3 : delta[k] < BLOCK_SIZE /\ -delta[k] < BLOCK_SIZE

BoxAfterX == <<move.start[1] + move.delta[1], move.start[2], move.start[3]>>

\* the box the Z step tests: the resolved x, start z moved by delta.z
BoxAfterZ == <<pos[1], move.start[2], move.start[3] + move.delta[3]>>

\* the box the Y step tests: the resolved x and z, start y moved by delta.y
BoxAfterY == <<pos[1], move.start[2] + move.delta[2], pos[3]>>

\* the pushed-out coordinate of C6 on axis k (1 = x, 3 = z) for the cell c
PushedOut(c, k, dlt) ==
    IF dlt > 0 THEN c[k] * BLOCK_SIZE - playerHalfWidth
    ELSE (c[k] + 1) * BLOCK_SIZE + playerHalfWidth

\* C6 as claimed: with a single solid cell, a move with delta.x # 0 whose
\* post-move box overlaps the cell returns collidedX and leaves pos.x on the
\* near face minus halfWidth (delta.x > 0) or the far face plus halfWidth
\* (delta.x < 0), whatever the depth of overlap; likewise on Z.
C6_Original ==
    (move.op = "moveAndCollide" /\ NumSolid(blocks) = 1) =>
        /\ \A c \in SolidOverlapped(blocks, dims, BoxAfterX) :
              move.delta[1] # 0 =>
                  move.collidedX /\ pos[1] = PushedOut(c, 1, move.delta[1])
        /\ \A c \in SolidOverlapped(blocks, dims, BoxAfterZ) :
              move.delta[3] # 0 =>
                  move.collidedZ /\ pos[3] = PushedOut(c, 3, move.delta[3])

\* C6 amended: the same for a post-move box that reaches into the cell by
\* 1e-6 or more on every axis; a shallower overlap is not resolved.
C6_PushOutExact ==
    (move.op = "moveAndCollide" /\ NumSolid(blocks) = 1) =>
        /\ \A c \in SolidReached(blocks, dims, BoxAfterX) :
              move.delta[1] # 0 =>
                  move.collidedX /\ pos[1] = PushedOut(c, 1, move.delta[1])
        /\ \A c \in SolidReached(blocks, dims, BoxAfterZ) :
              move.delta[3] # 0 =>
                  move.collidedZ /\ pos[3] = PushedOut(c, 3, move.delta[3])

\* C6 witness: a single solid cell entered deeply along +x.
C6_Witness ==
    /\ move.op = "moveAndCollide"
    /\ NumSolid(blocks) = 1
    /\ move.delta[1] > EPS
    /\ SolidReached(blocks, dims, BoxAfterX) # {}
    /\ move.collidedX
    /\ pos[1] = BLOCK_SIZE - playerHalfWidth

C8_Original ==
    move.op = "moveAndCollide" =>
        /\ move.onGround <=>
              (move.delta[2] < 0 /\ SolidOverlapped(blocks, dims, BoxAfterY) # {})
        /\ move.onGround =>
              \E c \in SolidOverlapped(blocks, dims, BoxAfterY) :
                  pos[2] - playerHeight = (c[2] + 1) * BLOCK_SIZE
        /\ move.collidedCeiling <=>
              (move.delta[2] > 0 /\ SolidOverlapped(blocks, dims, BoxAfterY) # {})
        /\ move.collidedCeiling =>
              \E c \in SolidOverlapped(blocks, dims, BoxAfterY) :
                  pos[2] = c[2] * BLOCK_SIZE
        /\ ~(move.onGround /\ move.collidedCeiling)
        /\ move.delta[2] = 0 =>
              ~move.onGround /\ ~move.collidedCeiling /\ pos[2] = move.start[2]

\* C8 amended: the same with "overlaps a solid cell" read as "reaches into a
\* solid cell by 1e-6 or more on every axis".
C8_GroundAndCeiling ==
    move.op = "moveAndCollide" =>
        /\ move.onGround <=>
              (move.delta[2] < 0 /\ SolidReached(blocks, dims, BoxAfterY) # {})
        /\ move.onGround =>
              \E c \in SolidReached(blocks, dims, BoxAfterY) :
                  pos[2] - playerHeight = (c[2] + 1) * BLOCK_SIZE
        /\ move.collidedCeiling <=>
              (move.delta[2] > 0 /\ SolidReached(blocks, dims, BoxAfterY) # {})
        /\ move.collidedCeiling =>
              \E c \in SolidReached(blocks, dims, BoxAfterY) :
                  pos[2] = c[2] * BLOCK_SIZE
        /\ ~(move.onGround /\ move.collidedCeiling)
        /\ move.delta[2] = 0 =>
              ~move.onGround /\ ~move.collidedCeiling /\ pos[2] = move.start[2]

\* C8 witness: a fall stopped by a floor cell, the feet on its top.
C8_Witness ==
    /\ move.op = "moveAndCollide"
    /\ move.onGround
    /\ move.delta[2] < -EPS
    /\ pos[2] - playerHeight = BLOCK_SIZE
    /\ pos[2] > move.start[2] + move.delta[2]

(***************************************************************************)
(* Claims about raycast.                                                   *)
(***************************************************************************)
\* the cell the ray was in before it entered the k-th cell of the call
CellBefore(k) ==
    IF k = 1 THEN StartCell(ray.origin, BLOCK_SIZE) ELSE ray.result.entered[k - 1]

\* C3: when raycast returns a hit, blockPos is the last cell entered and is
\* solid, every cell entered before it is not solid, faceNormal has exactly
\* one non-zero component, which is minus the step of the axis advanced
\* last, and blockPos + faceNormal is the cell the ray was in just before.
C3_FirstSolidHit ==
    (ray.op = "raycast" /\ ray.result.hit) =>
        LET r == ray.result
            n == Len(r.entered)
        IN /\ n >= 1
           /\ r.blockPos = r.entered[n]
           /\ isSolid(blocks, dims, r.blockPos[1], r.blockPos[2], r.blockPos[3])
           /\ \A k \in 1..(n - 1) :
                 ~isSolid(blocks, dims, r.entered[k][1], r.entered[k][2],
                          r.entered[k][3])
           /\ Cardinality({a \in 1..3 : r.faceNormal[a] # 0}) = 1
           /\ r.faceNormal[r.lastAxis + 1] = -Step(ray.direction[r.lastAxis + 1])
           /\ r.faceNormal[r.lastAxis + 1] \in {-1, 1}
           /\ [a \in 1..3 |-> r.blockPos[a] + r.faceNormal[a]] = CellBefore(n)

\* C3 witness: a hit after the ray has crossed at least one non-solid cell,
\* from a start cell that is itself solid, on a diagonal direction.
C3_Witness ==
    /\ ray.op = "raycast"
    /\ ray.result.hit
    /\ Len(ray.result.entered) >= 2
    /\ LET c == StartCell(ray.origin, BLOCK_SIZE)
       IN isSolid(blocks, dims, c[1], c[2], c[3])
    /\ Cardinality({a \in 1..3 : ray.direction[a] # 0}) >= 2

(***************************************************************************)
(* Claims about ambient occlusion.                                         *)
(***************************************************************************)
\* the layer (coordinate along the face axis) of the non-solid cell of the
\* face of the call
AirLayer ==
    IF SolidCell(blocks, dims,
                 AxisVec(call.axis, uAxis(call.axis), vAxis(call.axis), 0,
                         call.faceU, call.faceV))
    THEN 1 ELSE 0

\* the cell of the air layer at offset (du, dv) from the face is solid
AirNeighbourSolid(b, du, dv) ==
    SolidCell(b, dims,
              AxisVec(call.axis, uAxis(call.axis), vAxis(call.axis), AirLayer,
                      call.faceU + du, call.faceV + dv))

\* the offsets of the corners v0..v3 from the face centre
CornerOffset(c) ==
    IF c = 1 THEN <<-1, -1>> ELSE IF c = 2 THEN <<1, -1>>
    ELSE IF c = 3 THEN <<1, 1>> ELSE <<-1, 1>>

\* the AO level the claim gives the corner c
ExpectedAO(c) ==
    LET o == CornerOffset(c)
        e1 == AirNeighbourSolid(blocks, o[1], 0)
        e2 == AirNeighbourSolid(blocks, 0, o[2])
        dg == AirNeighbourSolid(blocks, o[1], o[2])
    IN IF e1 /\ e2 THEN 0
       ELSE 3 - Cardinality({k \in {<<1, e1>>, <<2, e2>>, <<3, dg>>} : k[2]})

\* the grid turned by 90 degrees about the normal of a centred face: the
\* cell at offset (du, dv) moves to offset (-dv, du)
RotatedGrid ==
    LET axis == call.axis
        d == dims
    IN [i \in DOMAIN blocks |->
          LET c == CHOOSE c \in InRangeCoords(d) : index(d, c[1], c[2], c[3]) = i
              du == c[uAxis(axis) + 1] - 1
              dv == c[vAxis(axis) + 1] - 1
              from == AxisVec(axis, uAxis(axis), vAxis(axis), c[axis + 1],
                              1 + dv, 1 - du)
          IN blocks[index(d, from[1], from[2], from[3])]]

\* C11: every corner's AO is in 0..3; it is 0 when both edge neighbours in
\* the air-side layer are solid and else 3 minus the number of solid cells
\* among the two edge neighbours and the diagonal neighbour of that layer;
\* vertexAO does not change when its two edge arguments are swapped; and
\* turning the neighbours of a face by 90 degrees about its normal moves the
\* AO of corner v0 to v1, v1 to v2, v2 to v3 and v3 to v0.
C11_VertexAO ==
    pc = "aoDone" =>
        /\ \A c \in 1..4 : call.ao[c] \in 0..3 /\ call.ao[c] = ExpectedAO(c)
        /\ \A s1, s2, cr \in BOOLEAN : vertexAO(s1, s2, cr) = vertexAO(s2, s1, cr)
        /\ (call.faceU = 1 /\ call.faceV = 1) =>
              \A c \in 1..4 :
                  MaskAO(RotatedGrid, dims, call.axis, 0, 1, 1)[(c % 4) + 1]
                      = call.ao[c]

\* C11 witness: a centred face with a fully occluded corner (both edge
\* neighbours solid, diagonal air), a fully lit corner and two further
\* levels.
C11_Witness ==
    /\ pc = "aoDone"
    /\ call.faceU = 1 /\ call.faceV = 1
    /\ \E c \in 1..4 :
          /\ call.ao[c] = 0
          /\ ~AirNeighbourSolid(blocks, CornerOffset(c)[1], CornerOffset(c)[2])
    /\ \E c \in 1..4 : call.ao[c] = 3
    /\ Cardinality({call.ao[c] : c \in 1..4}) >= 3

(***************************************************************************)
(* Further claims about raycast.                                           *)
(***************************************************************************)
\* C14: a hit is never the cell that contains the origin, whether or not
\* that cell is solid.
C14_StartCellNeverHit ==
    (ray.op = "raycast" /\ ray.result.hit) =>
        ray.result.blockPos # StartCell(ray.origin, BLOCK_SIZE)

\* C14 witness: the origin in a solid cell, the hit in the neighbour cell the
\* ray steps into first.
C14_Witness ==
    /\ ray.op = "raycast"
    /\ LET c == StartCell(ray.origin, BLOCK_SIZE)
       IN isSolid(blocks, dims, c[1], c[2], c[3])
    /\ ray.result.hit
    /\ Len(ray.result.entered) = 1

\* the ray parameter, times TScale, of the first cell boundary the ray
\* crosses: the smallest over the axes the ray moves on of the distance to
\* the next boundary divided by the direction component
FirstCrossing ==
    LET c == StartCell(ray.origin, BLOCK_SIZE)
        along(a) ==
            IF ray.direction[a] > 0
            THEN (((c[a] + 1) * BLOCK_SIZE - ray.origin[a]) * 2) \div ray.direction[a]
            ELSE ((ray.origin[a] - c[a] * BLOCK_SIZE) * 2) \div (-ray.direction[a])
        moving == {a \in 1..3 : ray.direction[a] # 0}
    IN IF moving = {} THEN Infinity
       ELSE CHOOSE m \in {along(a) : a \in moving} :
                \A a \in moving : m <= along(a)

\* C15: no hit with maxDistance = 0; no hit when the ray ends before its
\* first boundary crossing; every hit has 0 <= distance <= maxDistance,
\* where distance = blockSize * t (ray.result.t is t * TScale, so the
\* distance in model units is ray.result.t / 2).
C15_RespectsMaxDistance ==
    ray.op = "raycast" =>
        /\ ray.maxDistance = 0 => ~ray.result.hit
        /\ ray.maxDistance * 2 < FirstCrossing => ~ray.result.hit
        /\ ray.result.hit =>
              /\ 0 <= ray.result.t
              /\ ray.result.t <= ray.maxDistance * 2

\* C15 witness: a hit within a maxDistance of half a cell, on a grid and ray
\* for which a longer reach would not have been needed.
C15_Witness ==
    /\ ray.op = "raycast"
    /\ ray.maxDistance = BLOCK_SIZE \div 2
    /\ ray.result.hit
    /\ ray.result.t > 0

\* the only solid cell of the grid, when there is exactly one
OnlySolidCell ==
    CHOOSE c \in InRangeCoords(dims) : SolidCell(blocks, dims, c)

Sign(v) == IF v > 0 THEN 1 ELSE IF v < 0 THEN -1 ELSE 0

\* the ray of the call is aimed at the centre of the cell c: the centre is
\* origin + direction * BLOCK_SIZE / 2
AimedAt(c) ==
    \A a \in 1..3 :
        CellCentre(c)[a] = ray.origin[a] + ray.direction[a] * (BLOCK_SIZE \div 2)

\* C16: with a single solid cell, an origin in another cell, the direction
\* pointing from the origin to the centre of the cell and maxDistance larger
\* than the distance to that centre, raycast returns the cell, and the one
\* non-zero component of faceNormal has the sign of origin - centre on its
\* axis.  (The direction has length BLOCK_SIZE / 2 per unit of t here, so the
\* centre lies at t = 1/2 and maxDistance > BLOCK_SIZE / 2 reaches it.)
C16_RoundTrip ==
    (/\ ray.op = "raycast"
     /\ NumSolid(blocks) = 1
     /\ OnlySolidCell # StartCell(ray.origin, BLOCK_SIZE)
     /\ AimedAt(OnlySolidCell)
     /\ ray.maxDistance > BLOCK_SIZE \div 2) =>
        /\ ray.result.hit
        /\ ray.result.blockPos = OnlySolidCell
        /\ \E a \in 1..3 :
              /\ ray.result.faceNormal[a] # 0
              /\ \A o \in (1..3) \ {a} : ray.result.faceNormal[o] = 0
              /\ ray.result.faceNormal[a]
                     = Sign(ray.origin[a] - CellCentre(OnlySolidCell)[a])

\* C16 witness: a ray aimed along a diagonal from outside the grid at the
\* only solid cell, which it reaches after crossing another cell.
C16_Witness ==
    /\ ray.op = "raycast"
    /\ NumSolid(blocks) = 1
    /\ AimedAt(OnlySolidCell)
    /\ OutOfRange(dims, StartCell(ray.origin, BLOCK_SIZE)[1],
                  StartCell(ray.origin, BLOCK_SIZE)[2],
                  StartCell(ray.origin, BLOCK_SIZE)[3])
    /\ Cardinality({a \in 1..3 : ray.direction[a] # 0}) >= 2
    /\ ray.result.hit
    /\ ray.result.blockPos = OnlySolidCell
    /\ Len(ray.result.entered) >= 2

(***************************************************************************)
(* Claims about physicsTick.                                               *)
(***************************************************************************)
\* v * drag^t, snapped to zero below the threshold, + accel * t * direction
Updated(v, drag, accel, direction, dt) ==
    LET mom == Div(v * Pow(drag, dt), DragScale)
    IN (IF Abs(mom) < Scaled(NEGLIGIBLE_THRESHOLD, dt) THEN 0 ELSE mom)
       + Div(Scaled(accel, dt) * direction, VelScale)

\* the horizontal velocity the tick would leave in either regime
GroundedUpdate ==
    <<Updated(tick.jump.state.velX, GROUND_DRAG, GROUND_ACCEL, tick.dir[1],
              tick.dt),
      Updated(tick.jump.state.velZ, GROUND_DRAG, GROUND_ACCEL, tick.dir[3],
              tick.dt)>>

AirborneUpdate ==
    <<Updated(tick.jump.state.velX, AIR_DRAG, AIR_ACCEL, tick.dir[1],
              tick.dt),
      Updated(tick.jump.state.velZ, AIR_DRAG, AIR_ACCEL, tick.dir[3],
              tick.dt)>>

\* Space held, the flag of the previous tick true, the cooldown run out
JumpStarts ==
    /\ "Space" \in tick.keysDown
    /\ tick.prev.onGround
    /\ tick.before.jumpCooldown <= 0

\* C17 as stated: the horizontal update of every tick is the grounded one
\* when the onGround flag the previous tick stored is true and the airborne
\* one when it is false, whatever else the tick computed.
C17_Original ==
    tick.op = "physicsTick" =>
        /\ tick.prev.onGround => tick.horizontal = GroundedUpdate
        /\ ~tick.prev.onGround => tick.horizontal = AirborneUpdate

\* C17: the horizontal update of every tick is the grounded one when the
\* onGround flag the previous tick stored is true and no jump starts in this
\* tick, and the airborne one otherwise: a tick that starts a jump is already
\* airborne.
C17_RegimeSelection ==
    tick.op = "physicsTick" =>
        /\ (tick.prev.onGround /\ ~JumpStarts)
               => tick.horizontal = GroundedUpdate
        /\ ~(tick.prev.onGround /\ ~JumpStarts)
               => tick.horizontal = AirborneUpdate

\* a tick that starts a jump from the ground, where the two regimes differ
C17_Witness ==
    /\ tick.op = "physicsTick"
    /\ tick.prev.onGround
    /\ JumpStarts
    /\ GroundedUpdate # AirborneUpdate
    /\ tick.horizontal = AirborneUpdate

\* SPRINT_JUMP_BOOST along a camera direction without pitch
BoostToward(cameraFront) ==
    <<Div(cameraFront[1] * SPRINT_JUMP_BOOST, VelScale),
      Div(cameraFront[3] * SPRINT_JUMP_BOOST, VelScale)>>

\* what the jump check added to the horizontal velocity
BoostAdded ==
    <<tick.jump.state.velX - tick.before.velX,
      tick.jump.state.velZ - tick.before.velZ>>

\* C18: a tick sets velY to JUMP_VELOCITY and the cooldown to JUMP_COOLDOWN
\* exactly when Space is held, the previous tick's onGround is true and the
\* cooldown after this tick's decrement is <= 0; it adds the boost exactly
\* when, in addition, a movement key is held; every other tick leaves the
\* velocities as they were, so no jump starts while airborne.
C18_JumpRule ==
    tick.op = "physicsTick" =>
        /\ JumpStarts =>
              /\ tick.jump.state.velY = JUMP_VELOCITY
              /\ tick.jump.state.jumpCooldown = JUMP_COOLDOWN
        /\ ~JumpStarts =>
              /\ tick.jump.state.velY = tick.before.velY
              /\ tick.jump.state.velY # JUMP_VELOCITY
              /\ tick.jump.state.jumpCooldown # JUMP_COOLDOWN
        /\ (JumpStarts /\ tick.keysDown \cap MovementKeys # {})
              => /\ BoostAdded = BoostToward(tick.cameraFront)
                 /\ BoostAdded # <<0, 0>>
        /\ ~(JumpStarts /\ tick.keysDown \cap MovementKeys # {})
              => BoostAdded = <<0, 0>>
        /\ ~tick.prev.onGround => tick.jump.state.velY # JUMP_VELOCITY

\* a jump with the boost has started
C18_Witness ==
    /\ tick.op = "physicsTick"
    /\ JumpStarts
    /\ tick.keysDown \cap MovementKeys # {}
    /\ tick.jump.state.velY = JUMP_VELOCITY
    /\ BoostAdded # <<0, 0>>

C20_HorizontalStop ==
    /\ [](pc = "idle" =>
            /\ state.onGround
            /\ tick.n >= StopWithin => (state.velX = 0 /\ state.velZ = 0))
    /\ [][pc = "idle" =>
            /\ state.velX = 0 => state'.velX = 0
            /\ state.velZ = 0 => state'.velZ = 0]_vars

\* the fastest player has just come to rest, in the last tick allowed
C20_Witness ==
    /\ pc = "idle"
    /\ tick.op = "physicsTick"
    /\ Abs(tick.prev.velX) > 0
    /\ state.velX = 0
    /\ state.velZ = 0
    /\ tick.n = StopWithin

\* the ticks the highest start takes to land at the shortest frame time
LandWithin == MaxLandingTicks - 3

\* C21: on the 4x4x4 grid with the solid layer y = 0, a player that starts
\* above the layer with no velocity and no key held has reached, after the
\* ticks the fall takes, a tick with onGround true and pos.y = blockSize +
\* height, and a pos.y of that value is kept by every later tick.
C21_Landing ==
    /\ [](pc = "landing" /\ tick.n >= LandWithin
            => state.onGround /\ pos[2] = LandedY)
    /\ [][pc = "landing" /\ pos[2] = LandedY => pos'[2] = LandedY]_vars

\* the tick in which a player that was falling has landed
C21_Witness ==
    /\ pc = "landing"
    /\ tick.op = "physicsTick"
    /\ ~tick.prev.onGround
    /\ tick.prev.velY < 0
    /\ state.onGround
    /\ pos[2] = LandedY

(***************************************************************************)
(* Termination of raycast.                                                 *)
(***************************************************************************)
\* the values t takes in the first n passes of the stepping loop
RECURSIVE StepTimes(_, _, _, _)
StepTimes(tm, td, n, ts) ==
    IF n = 0 THEN ts
    ELSE StepTimes([tm EXCEPT ![NextAxis(tm) + 1] =
                        Advance(tm[NextAxis(tm) + 1], td[NextAxis(tm) + 1])],
                   td, n - 1, Append(ts, tm[NextAxis(tm) + 1]))

\* the values of t of the call
RayTimes ==
    LET cell == StartCell(ray.origin, BLOCK_SIZE)
    IN StepTimes([a \in 1..3 |-> tMax(cell[a], ray.origin[a], ray.direction[a], BLOCK_SIZE)],
                 [a \in 1..3 |-> tDelta(ray.direction[a])],
                 Len(ray.result.entered), <<>>)

\* a bound on the passes of the loop: on an axis the ray moves along, one
\* boundary per cell of maxDistance * |d| and the first one; and the pass
\* that ends the loop
StepBound ==
    LET crossings(a) ==
            IF ray.direction[a] = 0 THEN 0
            ELSE (ray.maxDistance * Abs(ray.direction[a])) \div BLOCK_SIZE + 1
    IN crossings(1) + crossings(2) + crossings(3) + 1

\* ts starts at 0 or later, never decreases, has n values and ends with t
Monotone(ts, n, t) ==
    /\ Len(ts) = n
    /\ \A k \in 1..Len(ts) :
          /\ 0 <= ts[k]
          /\ k > 1 => ts[k - 1] <= ts[k]
          /\ k = Len(ts) => ts[k] = t

\* C27: a raycast call ends with a hit or with null after at most StepBound
\* passes of the loop, and t never decreases from one pass to the next and
\* ends as the t of the result.
C27_Terminates ==
    ray.op = "raycast" =>
        /\ ray.result.hit \in BOOLEAN
        /\ Len(ray.result.entered) <= StepBound
        /\ Monotone(RayTimes, Len(ray.result.entered), ray.result.t)

\* C27 witness: a ray parallel to two axes that crosses the empty grid and
\* ends at maxDistance after several passes.
C27_Witness ==
    /\ ray.op = "raycast"
    /\ NumSolid(blocks) = 0
    /\ Cardinality({a \in 1..3 : ray.direction[a] # 0}) = 1
    /\ ~ray.result.hit
    /\ Len(ray.result.entered) >= 4
    /\ 0 < ray.result.t /\ ray.result.t < Infinity

\* a call with the zero direction and a positive maxDistance: one pass, t
\* infinite, no hit
C27_ZeroDirection ==
    /\ ray.op = "raycast"
    /\ ray.direction = <<0, 0, 0>> /\ ray.maxDistance > 0
    /\ ~ray.result.hit
    /\ Len(ray.result.entered) = 1 /\ ray.result.t = Infinity

(***************************************************************************)
(* Further claims about the mesher.                                        *)
(***************************************************************************)
\* the mask value of a facing and four AO values, as phase 1 computes it
Encoded(positive, ao) == (IF positive THEN 1 ELSE -1) * (1 + PackAO(ao))

\* the facing and the AO values phase 2 reads back from a mask value
Decoded(maskVal) == <<maskVal > 0, UnpackAO(Abs(maskVal) - 1)>>

\* C23: every unit face a quad covers is a face of the quad's facing whose
\* four AO values, as phase 1 computes them, are the quad's ao[0..3]; the
\* mask value of a face is not 0 and decodes to that facing and AO; and the
\* encoding sign * (1 + ao0 | ao1<<2 | ao2<<4 | ao3<<6) is never 0 and is
\* decoded to the facing and AO values it was built from, so distinct
\* combinations have distinct mask values.
C23_UniformQuads ==
    pc = "meshed" =>
        /\ \A k \in 1..Len(quads) : \A f \in Faces(dims) :
              Covers(quads[k], f, BLOCK_SIZE) =>
                  /\ FaceExists(blocks, dims, f)
                  /\ quads[k].positiveFacing = FacePositive(blocks, dims, f)
                  /\ quads[k].ao = FaceAO(blocks, dims, f)
        /\ \A f \in Faces(dims) :
              FaceExists(blocks, dims, f) =>
                  /\ MaskValue(blocks, dims, f[1], f[2], f[3], f[4]) # 0
                  /\ Decoded(MaskValue(blocks, dims, f[1], f[2], f[3], f[4]))
                        = <<FacePositive(blocks, dims, f),
                            FaceAO(blocks, dims, f)>>
        /\ \A positive \in BOOLEAN, ao \in [1..4 -> 0..3] :
              /\ Encoded(positive, ao) # 0
              /\ Decoded(Encoded(positive, ao)) = <<positive, ao>>

\* C23 witness: a mesh with a quad of more than one face that is darkened at
\* a corner, and two quads of one plane and facing that differ in AO.
C23_Witness ==
    /\ pc = "meshed"
    /\ \E k \in 1..Len(quads) :
          /\ quads[k].uvWidth * quads[k].uvHeight > 1
          /\ \E c \in 1..4 : quads[k].ao[c] < 3
    /\ \E k1, k2 \in 1..Len(quads) :
          /\ quads[k1].axis = quads[k2].axis
          /\ quads[k1].v0[quads[k1].axis + 1] = quads[k2].v0[quads[k2].axis + 1]
          /\ quads[k1].positiveFacing = quads[k2].positiveFacing
          /\ quads[k1].ao # quads[k2].ao

(***************************************************************************)
(* Further claims about physicsTick.                                       *)
(***************************************************************************)
\* the vertical velocity one gravity and drag step of duration dt gives a
\* player at rest
RestStep(dt) == MulDrag(0 - Scaled(GRAVITY, dt), Pow(VERTICAL_DRAG, dt))

C24_CeilingReached ==
    /\ pc = "game" /\ tick.op = "physicsTick"
    /\ tick.result.collidedCeiling /\ tick.jump.justJumped
    /\ state.velY = RestStep(tick.dt)

\* C26: a jump that starts while Space has been held in every tick since
\* the start of the jump before it starts at least JUMP_COOLDOWN after it;
\* a tick without Space ends with the cooldown 0; and after such a tick the
\* first tick with Space held and the player on the ground starts a jump.
C26_JumpCooldown ==
    pc = "jump" /\ tick.op = "physicsTick" =>
        /\ (tick.justJumped /\ tick.prevSince >= 0 /\ ~tick.prevReleased)
              => tick.prevSince + tick.dt >= JUMP_COOLDOWN
        /\ "Space" \notin tick.keysDown => state.jumpCooldown = 0
        /\ ("Space" \in tick.keysDown /\ tick.prev.onGround
               /\ tick.prevReleased)
              => tick.justJumped

\* C26 witness: the second of two jumps between which Space was held all
\* the time, the player back on the ground before the cooldown had run out.
C26_Witness ==
    /\ pc = "jump" /\ tick.op = "physicsTick"
    /\ tick.justJumped /\ tick.prevSince >= 0 /\ ~tick.prevReleased
    /\ tick.prevSince + tick.dt = JUMP_COOLDOWN

\* a jump in the tick after a tick without Space, while the cooldown of the
\* jump before it would still be running
C26_JumpAfterRelease ==
    /\ pc = "jump" /\ tick.op = "physicsTick"
    /\ tick.justJumped /\ tick.prevReleased
    /\ tick.prevSince >= 0 /\ tick.prevSince + tick.dt < JUMP_COOLDOWN

(***************************************************************************)
(* Claims about the game loop and the edit handlers.                       *)
(***************************************************************************)
\* the cells the collision resolver scans for the box at camera position p
ResolverCells(p) == CellRange(p[1], p[2], p[3], BLOCK_SIZE, playerHalfWidth, playerHeight)

\* C22: a right click whose target cell blockPos + faceNormal is in the cell
\* range the collision resolver scans for the player's box calls neither
\* setBlock nor remesh and leaves the grid as it was, and a right click that
\* places a block has its target outside that range.
C22_Original ==
    pc = "game" /\ call.op = "place"
        => /\ wouldTrap(call.target, ResolverCells(call.at))
                 => ~call.remeshed /\ call.after = call.before
           /\ call.remeshed => ~wouldTrap(call.target, ResolverCells(call.at))

\* C25: between any two of the frame callback and the mouse handlers the
\* vertex data and the vertex count held for drawing are those of greedyMesh
\* on the grid as it is (they are at the start, and every callback that
\* changes the grid or the mesh data leaves those of the new grid); and a
\* click whose setBlock returns false leaves the grid and the rebuilt vertex
\* data as they were.
C25_MeshReflectsGrid ==
    /\ pc = "game" =>
            /\ quads = greedyMesh(blocks, dims, BLOCK_SIZE)
            /\ vertexData = QuadsToVertices(quads)
            /\ Len(vertexData) = numVertices(quads)
    /\ [][pc = "game" /\ <<blocks, quads, vertexData>>' # <<blocks, quads, vertexData>>
            => /\ quads' = greedyMesh(blocks', dims', BLOCK_SIZE)
               /\ vertexData' = QuadsToVertices(quads')
               /\ Len(vertexData') = numVertices(quads')]_vars
    /\ [][pc = "game" /\ call' # call /\ call'.remeshed /\ ~call'.ret
            => blocks' = blocks /\ vertexData' = vertexData]_vars

\* C25 witness: a block was broken, and then a right click on a west face of
\* column 0 called setBlock outside the grid and remeshed.
C25_Witness ==
    /\ pc = "game" /\ call.op = "place" /\ call.remeshed /\ ~call.ret
    /\ call.target[1] = -1
    /\ blocks # GameGrid /\ blocks = call.before

(***************************************************************************)
(* Claims about the start-up of main().                                    *)
(***************************************************************************)
\* the resources whose creation main() awaits
AsyncInit == {"adapter", "device", "blockTextures", "skybox"}

\* C28: while a handler is registered or a frame is requested, the adapter,
\* the device, the block textures and the skybox are there and main() awaits
\* nothing any more; and every callback that has run (tick, render, edit,
\* resize, debug change) found every GPU resource it uses created.
C28_StartupOrdering ==
    pc = "main"
        => /\ state.handlers # {} \/ state.frames # {}
                 => /\ AsyncInit \subseteq state.ready
                    /\ ~move.awaiting /\ move.pending = {} /\ ~move.thrown
           /\ tick.uses \subseteq tick.ready

\* C28 witness: main() has ended, a tick found a block under the crosshair
\* and the mousedown handler then edited the grid and remeshed.
C28_Witness ==
    /\ pc = "main" /\ move.at > Len(mainSteps)
    /\ tick.op = "mousedown" /\ "vertexBuffer" \in tick.uses

\* a frame requested by tick has rendered, skybox and water included
C28_RenderReached ==
    /\ pc = "main" /\ tick.op = "render"
    /\ {"skybox", "water", "depthTexture"} \subseteq tick.uses

\* main() threw for want of an adapter
C28_ThrownReached == pc = "main" /\ move.thrown

(***************************************************************************)
(* Claims about the player over many frames.                               *)
(***************************************************************************)
\* the feet of the box at p are on the top face of the cell c
FeetOn(c, p) ==
    /\ (c[2] + 1) * BLOCK_SIZE = p[2] - playerHeight
    /\ c[1] * BLOCK_SIZE < p[1] + playerHalfWidth
    /\ p[1] - playerHalfWidth < (c[1] + 1) * BLOCK_SIZE
    /\ c[3] * BLOCK_SIZE < p[3] + playerHalfWidth
    /\ p[3] - playerHalfWidth < (c[3] + 1) * BLOCK_SIZE

\* C29: a physicsTick that starts with onGround true, without Space, with
\* the feet on a solid cell before and after it, ends with onGround true and
\* the same pos.y.
C29_Original ==
    /\ pc = "game" /\ tick.op = "physicsTick"
    /\ tick.prev.onGround /\ "Space" \notin tick.keysDown
    /\ \E c \in SolidCells(blocks, dims) : FeetOn(c, tick.from)
    /\ \E c \in SolidCells(blocks, dims) : FeetOn(c, pos)
    => state.onGround /\ pos[2] = tick.from[2]

\* the box at p and the cell c share a range of y and a range of z
FacesCell(c, p) ==
    /\ c[2] * BLOCK_SIZE < p[2]
    /\ p[2] - playerHeight < (c[2] + 1) * BLOCK_SIZE
    /\ c[3] * BLOCK_SIZE < p[3] + playerHalfWidth
    /\ p[3] - playerHalfWidth < (c[3] + 1) * BLOCK_SIZE

\* the solid cells of the grid b that the box faced at p and has wholly on
\* its other side, along x, at q
PassedThrough(b, d, p, q) ==
    {c \in SolidCells(b, d) :
        /\ FacesCell(c, p) /\ FacesCell(c, q)
        /\ \/ /\ p[1] + playerHalfWidth <= c[1] * BLOCK_SIZE
              /\ (c[1] + 1) * BLOCK_SIZE <= q[1] - playerHalfWidth
           \/ /\ q[1] + playerHalfWidth <= c[1] * BLOCK_SIZE
              /\ (c[1] + 1) * BLOCK_SIZE <= p[1] - playerHalfWidth}

\* the player's box overlaps no solid cell after a tick or a click
C30_NoOverlap == pc = "game" => SolidOverlapped(blocks, dims, pos) = {}

\* no tick ends on the far side of a solid cell of the grid it ran on
C30_NoTunnel ==
    pc = "game" /\ tick.op = "physicsTick"
        => PassedThrough(tick.grid, dims, tick.from, pos) = {}

\* C30: from a box that overlaps no solid cell, after every tick and every
\* click the box overlaps no solid cell, and no tick ends with the box on
\* the far side of a solid cell it faced.
C30_Original == C30_NoOverlap /\ C30_NoTunnel

====
